---- MODULE Spec2Model ----
(***************************************************************************)
(* Ray's persistent state machine: the journal actor (recovery and serve   *)
(* loop), the machine actor, the snapshot actor, the directory journal and *)
(* the snapshot storage, with process crashes and restarts.                *)
(***************************************************************************)
EXTENDS Integers, Sequences, FiniteSets, TLC

\* ---------------------------------------------------------------- bounds
\* Set requests ever issued, Get requests ever issued, process starts.
MaxSets == 2
MaxGets == 1
MaxRuns == 3
\* The bounds of the runs that answer several queries.
MaxQueryGets == 2
MaxQueryRuns == 2
MaxQuerySets == 2
\* The bounds of the one run without crash and I/O failure.
MaxLiveSets == 2
MaxLiveGets == 1
LiveRuns == 1
\* The bounds of the one run in which more requests wait than a batch takes.
MaxBatchSets == 3
\* The bound of the runs in which a write to the disk can fail.
MaxIoRuns == 2
\* The bounds of the one run in which callers give up.
MaxCancelSets == 2
MaxCancelGets == 2
MaxReplySets == 1
BatchRuns == 1
\* The bounds of the data directories a recovery is started on: the blobs of
\* the journal, their epochs, the epoch of the snapshot.
MaxFoundBlobs == 3
MaxFoundEpoch == 3
MaxFoundSnapshot == 2
RecoveryRuns == 1
\* The bounds of the runs with the longer snapshot interval.
MaxIntervalSets == 3
MaxIntervalRuns == 2
\* The bounds of the runs with empty keys and values.
MaxEmptySets == 2
MaxEmptyRuns == 2
\* the system with failing and outside removals of journal files
MaxDisposeSets == 3
DisposeRuns == 1

\* ------------------------------------------------- configuration values
\* The fields of the configuration, set small (the defaults are 100 requests
\* per batch, a snapshot every 10000 epochs, 100 MB per journal file) so that
\* a batch of two, a file rotation after one blob and a snapshot after one
\* mutation all happen with two Sets.
batch_size == 2
snapshot_batch_size == 2
snapshot_interval == 1
\* The snapshot interval of the runs in which a batch can end short of it.
long_snapshot_interval == 2
file_size_soft_limit == 19
request_queue_size == 3
machine_queue_size == 2

\* ------------------------------------------------------ the KV machine
Keys == {<<>>, <<1>>, <<2>>}
Values == {<<>>, <<7>>, <<8, 8>>}
SetRequest == [key : Keys, value : Values]
\* The requests the clients issue: Sets of either value to the first key and
\* of the short value to the second, Gets of the first key.
SetInputs ==
    {m \in SetRequest : /\ m.key # <<>> /\ m.value # <<>>
                        /\ m.key = <<2>> => m.value = <<7>>}
\* The requests of the clients that also send empty keys and empty values.
EmptyInputs == {m \in SetRequest : m.key \in {<<>>, <<1>>} /\ m.value \in {<<>>, <<7>>}}
GetInputs == {<<1>>}
\* HashMap::get: no entry, or the value.
NoValue == <<>>
Stored(value) == <<value>>
None == "None"

\* Option<u64>: no value, or one.
NoEpoch == <<>>
Some(e) == <<e>>

DefaultMachine == [k \in Keys |-> NoValue]

apply_mutation(map, mutation) ==
    [map EXCEPT ![mutation.key] = Stored(mutation.value)]

query_state(map, query) ==
    IF map[query] = NoValue THEN <<>> ELSE map[query][1]

\* prost: a bytes field is left out when empty, else tag + length + bytes.
FieldLen(bytes) == IF Len(bytes) = 0 THEN 0 ELSE 2 + Len(bytes)

encoded_len(mutation) == FieldLen(mutation.key) + FieldLen(mutation.value)

\* prost, Message::encode of a SetRequest: the fields that are not empty,
\* each under its tag.
Field(tag, bytes) == IF Len(bytes) = 0 THEN <<>> ELSE <<[tag |-> tag, bytes |-> bytes]>>

encode(mutation) == Field(1, mutation.key) \o Field(2, mutation.value)

\* prost, Message::decode: a field that is absent has its default, the
\* empty byte string.
FieldOf(payload, tag) ==
    IF \E i \in 1..Len(payload) : payload[i].tag = tag
    THEN payload[CHOOSE i \in 1..Len(payload) : payload[i].tag = tag].bytes
    ELSE <<>>

decode(payload) == [key |-> FieldOf(payload, 1), value |-> FieldOf(payload, 2)]

\* HashMap::iter: the keys of the map in any order.
Orders(map) ==
    LET present == {k \in Keys : map[k] # NoValue} IN
    {s \in [1..Cardinality(present) -> present] :
        \A i, j \in 1..Cardinality(present) : s[i] = s[j] => i = j}

\* StorageMachine::write_snapshot: one record per entry, the length of the
\* encoded SetRequest and the encoding.
write_snapshot(map, order) ==
    [i \in 1..Len(order) |->
        LET set == [key |-> order[i], value |-> map[order[i]][1]] IN
        [len |-> encoded_len(set), payload |-> encode(set)]]

\* A faulty variant of from_snapshot: a record of length 0 is taken for
\* the end of the file.
RECURSIVE from_snapshot_to_empty(_)
from_snapshot_to_empty(records) ==
    IF records = <<>> \/ records[Len(records)].len = 0
    THEN [k \in Keys |-> NoValue]
    ELSE apply_mutation(from_snapshot_to_empty(SubSeq(records, 1, Len(records) - 1)),
                        decode(records[Len(records)].payload))

\* StorageMachine::from_snapshot: the records are read to the end of the
\* file and inserted in their order.
RECURSIVE from_snapshot(_)
from_snapshot(records) ==
    IF records = <<>>
    THEN [k \in Keys |-> NoValue]
    ELSE apply_mutation(from_snapshot(SubSeq(records, 1, Len(records) - 1)),
                        decode(records[Len(records)].payload))

\* snapshot_service write_snapshot and read_snapshot: the epoch in front of
\* the machine's records.
snapshot_bytes(map, e, order) == [epoch |-> e, records |-> write_snapshot(map, order)]

read_snapshot(bytes) == [epoch |-> bytes.epoch, map |-> from_snapshot(bytes.records)]

\* The snapshots a reader can find after the writer died part-way: any
\* subset of the map's records may have reached the file.
SubMaps(map) ==
    {m \in [Keys -> {NoValue} \cup {Stored(v) : v \in Values}] :
        \A k \in Keys : m[k] = NoValue \/ m[k] = map[k]}

\* ------------------------------------------------------------- helpers
RECURSIVE SeqSum(_)
SeqSum(s) == IF s = <<>> THEN 0 ELSE Head(s) + SeqSum(Tail(s))

Min(a, b) == IF a <= b THEN a ELSE b

Range(s) == {s[i] : i \in 1..Len(s)}

SetMax(S) == CHOOSE x \in S : \A y \in S : y <= x

SetMin(S) == CHOOSE x \in S : \A y \in S : x <= y

\* ---------------------------------------------------------------- state
VARIABLES
    \* disk
    jfiles,          \* journal directory: files in name order
    snapfile,        \* the lexicographically greatest snapshot file, if any
    clock,           \* source of the timestamped file names
    \* process
    proc,            \* "down" | "up" | "dead" (startup failed for good)
    runs,            \* process starts so far
    panicked,        \* which assertion ended the last run, or None
    failed,          \* the failures of actors the process has not yet exited on
    \* journal actor
    jpc,             \* "restore" | "serve" | "persist" | "publish" | "notify" | "propose"
    reader,          \* DirectoryJournalReader
    writer,          \* DirectoryJournalWriter
    snapshot_epoch,  \* JournalServiceRestorer.snapshot_epoch
    last_epoch,      \* restore()'s last_epoch
    persisted_epoch, \* JournalService.persisted_epoch
    external_epoch,  \* the shared atomic
    batch,           \* the batch in hand: proposals with their notifiers
    sent,            \* proposals of the batch already sent
    \* channels
    request_chan, machine_chan, snapshot_chan, min_epoch_chan,
    \* machine actor
    machine, epoch, query_queue,
    received,        \* Proposals the machine actor has taken in this run
    \* snapshot actor
    spc,             \* "apply" | "snapshot"
    smachine, sepoch, last_snapshot_epoch,
    sreceived,       \* Proposals the snapshot actor has taken in this run
    \* RPC handlers
    gets,            \* Gets that have read the atomic and not yet sent their Query
    next_id, n_gets,
    \* history
    acked,           \* Sets whose caller was notified
    answers,         \* answered queries
    plog,            \* mutations in the order they became persistent: by the
                     \* fsync of their batch, or by a recovery that read them back
    disposed,        \* blobs of deleted journal files
    remove_failed,   \* journal files whose removal has failed
    snap_done,       \* epochs of the snapshots written and fsynced
    handled_min,     \* the watermark just handled, or 0
    recovered,       \* last_epoch of the recovery of this run, once done
    dropped,         \* Sets whose caller has dropped the notify receiver
    qdropped,        \* Gets whose caller has dropped the reply receiver
    undelivered      \* answers sent to a dropped reply receiver

diskVars == <<jfiles, snapfile, clock>>
procVars == <<proc, runs, panicked, failed>>
journalVars == <<jpc, reader, writer, snapshot_epoch, last_epoch,
                 persisted_epoch, external_epoch, batch, sent>>
chanVars == <<request_chan, machine_chan, snapshot_chan, min_epoch_chan>>
machineVars == <<machine, epoch, query_queue, received>>
snapVars == <<spc, smachine, sepoch, last_snapshot_epoch, sreceived>>
rpcVars == <<gets, next_id, n_gets>>
cancelVars == <<dropped, qdropped, undelivered>>
histVars == <<acked, answers, plog, disposed, remove_failed, snap_done, handled_min, recovered,
              cancelVars>>

vars == <<diskVars, procVars, journalVars, chanVars, machineVars, snapVars,
          rpcVars, histVars>>

\* ------------------------------------------------------------ the disk
NoReader == [file_paths |-> <<>>, open |-> FALSE, pos |-> 0,
             current_file_blob_count |-> 0,
             previous_files |-> <<>>, total_blob_count |-> 0]

NoWriter == [file_path |-> 0, current_file_size |-> 0,
             current_file_blob_count |-> 0,
             previous_files |-> <<>>, total_blob_count |-> 0]

FileIds == {jfiles[i].id : i \in 1..Len(jfiles)}

FileOf(id) == jfiles[CHOOSE i \in 1..Len(jfiles) : jfiles[i].id = id]

\* No snapshot file in the snapshot directory.
\* readable: read_snapshot succeeds on the file; whole: every record of the
\* machine that was written is in the file.
NoSnapshot == [exists |-> FALSE, epoch |-> 0, map |-> DefaultMachine,
               readable |-> FALSE, whole |-> FALSE]

\* tail: the bytes of an unfinished record after the last whole blob.
NewFile(id) == [id |-> id, blobs |-> <<>>, synced |-> 0, tail |-> 0]

\* All blobs of the journal directory, in file-name order.
RECURSIVE Flatten(_)
Flatten(files) ==
    IF files = <<>> THEN <<>> ELSE Head(files).blobs \o Flatten(Tail(files))

DiskBlobs == Flatten(jfiles)

\* The process before its first start: nothing in memory.
NotStarted ==
    /\ proc = "down"
    /\ runs = 0
    /\ panicked = None
    /\ failed = {}
    /\ jpc = "restore"
    /\ reader = NoReader
    /\ writer = NoWriter
    /\ snapshot_epoch = 0
    /\ last_epoch = NoEpoch
    /\ persisted_epoch = 0
    /\ external_epoch = 0
    /\ batch = <<>>
    /\ sent = 0
    /\ request_chan = <<>>
    /\ machine_chan = <<>>
    /\ snapshot_chan = <<>>
    /\ min_epoch_chan = <<>>
    /\ machine = DefaultMachine
    /\ epoch = 0
    /\ query_queue = {}
    /\ received = 0
    /\ spc = "apply"
    /\ smachine = DefaultMachine
    /\ sepoch = 0
    /\ last_snapshot_epoch = 0
    /\ sreceived = 0
    /\ gets = {}
    /\ next_id = 1
    /\ n_gets = 0
    /\ acked = {}
    /\ answers = {}
    /\ plog = <<>>
    /\ disposed = {}
    /\ remove_failed = {}
    /\ snap_done = {}
    /\ handled_min = 0
    /\ recovered = NoEpoch
    /\ dropped = {}
    /\ qdropped = {}
    /\ undelivered = {}

\* An empty data directory.
Init ==
    /\ jfiles = <<>>
    /\ snapfile = NoSnapshot
    /\ clock = 1
    /\ NotStarted


\* -------------------------------------------------------- process exit
ResetVolatile ==
    /\ jpc' = "restore"
    /\ reader' = NoReader
    /\ writer' = NoWriter
    /\ snapshot_epoch' = 0
    /\ last_epoch' = NoEpoch
    /\ persisted_epoch' = 0
    /\ external_epoch' = 0
    /\ batch' = <<>>
    /\ sent' = 0
    /\ request_chan' = <<>>
    /\ machine_chan' = <<>>
    /\ snapshot_chan' = <<>>
    /\ min_epoch_chan' = <<>>
    /\ machine' = DefaultMachine
    /\ epoch' = 0
    /\ query_queue' = {}
    /\ received' = 0
    /\ spc' = "apply"
    /\ smachine' = DefaultMachine
    /\ sepoch' = 0
    /\ last_snapshot_epoch' = 0
    /\ sreceived' = 0
    /\ gets' = {}
    /\ handled_min' = 0
    /\ recovered' = NoEpoch
    /\ failed' = {}

\* The unfinished records told apart: 2 bytes, a part of the length prefix;
\* 6 bytes, the prefix and a part of the blob.
Tails == {2, 6}

\* What the BufWriter of the current journal file leaves behind when the
\* process ends: the fsynced blobs, any further blobs that already reached
\* the file, and possibly the first bytes of the next one.
JournalCuts ==
    IF writer.file_path \in FileIds
    THEN LET f == FileOf(writer.file_path) IN
         {c \in [keep : f.synced..Len(f.blobs), tail : {0} \cup Tails] :
             c.tail > 0 => c.keep < Len(f.blobs)}
    ELSE {[keep |-> 0, tail |-> 0]}

CutFile(f, c) ==
    IF f.id = writer.file_path
    THEN [f EXCEPT !.blobs = SubSeq(f.blobs, 1, c.keep), !.tail = c.tail]
    ELSE f

\* What make_snapshot leaves behind when the process ends inside it: no new
\* file, an empty or torn file, or a file that reads back as a snapshot
\* holding some of the records.
SnapshotCuts ==
    IF spc = "snapshot"
    THEN {snapfile}
         \cup {[exists |-> TRUE, epoch |-> sepoch, map |-> m, readable |-> TRUE,
                 whole |-> (m = smachine)] : m \in SubMaps(smachine)}
         \cup {[exists |-> TRUE, epoch |-> sepoch, map |-> DefaultMachine,
                 readable |-> FALSE, whole |-> FALSE]}
    ELSE {snapfile}

Exit(cause) ==
    \E c \in JournalCuts, s \in SnapshotCuts :
        /\ jfiles' = [i \in 1..Len(jfiles) |-> CutFile(jfiles[i], c)]
        /\ snapfile' = s
        /\ proc' = "down"
        /\ panicked' = IF cause = None THEN panicked ELSE cause
        /\ ResetVolatile
        /\ UNCHANGED <<clock, runs, next_id, n_gets, acked, answers, plog,
                       disposed, remove_failed, snap_done, cancelVars>>

\* Startup failed: the process exits and every restart fails the same way.
Fatal ==
    /\ proc' = "dead"
    /\ ResetVolatile
    /\ UNCHANGED <<snapfile, runs, panicked, next_id, n_gets, acked, answers,
                   plog, disposed, remove_failed, snap_done, cancelVars>>

\* The failures that end each actor's task.
\* A faulty variant of Failures: an error of the journal writer or of the
\* snapshot writer is logged and the task goes on.
Failures_IoIgnored(actor) ==
    CASE actor = "journal" -> {"restore", "min_epoch", "notify"}
      [] actor = "machine" -> {"machine", "reply"}
      [] actor = "snapshot" -> {"snapshot"}

Failures(actor) ==
    CASE actor = "journal" -> {"restore", "min_epoch", "journal_io", "notify"}
      [] actor = "machine" -> {"machine", "reply"}
      [] actor = "snapshot" -> {"snapshot", "snapshot_io"}

\* do_and_die: the task of the actor has returned an error or panicked, and
\* takes no further step.
stopped(actor) == failed \cap Failures(actor) # {}

\* An actor's task returns an error or panics: do_and_die has the result and
\* has not yet called exit.
Failed(cause) ==
    /\ failed' = failed \cup {cause}
    /\ panicked' = IF cause \in {"restore", "journal_io", "snapshot_io",
                                  "notify", "reply"}
                   THEN panicked ELSE cause

Fail(cause) ==
    /\ Failed(cause)
    /\ UNCHANGED <<diskVars, proc, runs, journalVars, chanVars, machineVars,
                   snapVars, rpcVars, histVars>>

\* A faulty variant of Die: only a panic ends the process, a task that
\* returns an error is left dead.
Die_OnPanicOnly ==
    /\ proc = "up"
    /\ failed # {}
    /\ "restore" \notin failed
    /\ Exit(None)

\* do_and_die: exit(1) after the failure of an actor. A failed restore fails
\* again at every restart.
Die ==
    /\ proc = "up"
    /\ failed # {}
    /\ IF "restore" \in failed
       THEN Fatal /\ UNCHANGED <<jfiles, clock, cancelVars>>
       ELSE Exit(None)

\* The process is killed, or the machine loses power; it is started again
\* afterwards.
CrashUpTo(max_runs) ==
    /\ proc = "up"
    /\ runs < max_runs
    /\ Exit(None)

Crash == CrashUpTo(MaxRuns)

\* ------------------------------------------------------------- startup
\* start_server up to the spawning of the actors: the journal reader lists
\* the directory, the latest snapshot is read.
StartUpTo(max_runs) ==
    /\ proc = "down"
    /\ runs < max_runs
    /\ runs' = runs + 1
    /\ IF snapfile.exists /\ ~snapfile.readable
       THEN /\ proc' = "dead"
            /\ UNCHANGED <<diskVars, panicked, failed, journalVars, chanVars,
                           machineVars, snapVars, rpcVars, histVars>>
       ELSE LET m == IF snapfile.exists THEN snapfile.map ELSE DefaultMachine
                e == IF snapfile.exists THEN snapfile.epoch ELSE 0
            IN  /\ proc' = "up"
                /\ reader' = [NoReader EXCEPT
                                !.file_paths = [i \in 1..Len(jfiles) |-> jfiles[i].id],
                                !.open = (jfiles # <<>>)]
                /\ machine' = m
                /\ epoch' = e
                /\ smachine' = m
                /\ sepoch' = e
                /\ last_snapshot_epoch' = e
                /\ snapshot_epoch' = e
                /\ jpc' = "restore"
                /\ UNCHANGED <<diskVars, panicked, failed, writer, last_epoch,
                               persisted_epoch, external_epoch, batch, sent,
                               chanVars, query_queue, received, spc, sreceived,
                               rpcVars, histVars>>

Start == StartUpTo(MaxRuns)

\* ------------------------------------------------- directory journal
push_file(base, path, blob_count) ==
    [base EXCEPT !.total_blob_count = @ + blob_count,
                 !.previous_files = Append(@, [path |-> path, blob_count |-> blob_count])]

\* A faulty variant of try_read_u32: a part of a length prefix is taken for
\* the end of the file.
try_read_u32_lenient(left) == IF left < 4 THEN "eof" ELSE "len"

\* try_read_u32 on the bytes left in a file: none, fewer than the four of a
\* length prefix, or at least a prefix.
try_read_u32(left) ==
    IF left = 0 THEN "eof" ELSE IF left < 4 THEN "error" ELSE "len"

\* The bytes the reader has before it in its current file: a whole record,
\* or the file's tail.
bytes_left(r) ==
    LET f == FileOf(Head(r.file_paths)) IN
    IF r.pos < Len(f.blobs) THEN f.blobs[r.pos + 1].len + 4 ELSE f.tail

\* read_blob: read_exact finds the whole blob the prefix announced.
read_exact_ok(r) == r.pos < Len(FileOf(Head(r.file_paths)).blobs)

\* DirectoryJournalReader::read_len: skip the files that are at their end.
RECURSIVE read_len(_)
read_len(r) ==
    IF ~r.open THEN [status |-> "end", reader |-> r]
    ELSE LET f == FileOf(Head(r.file_paths))
             got == try_read_u32(bytes_left(r)) IN
         IF got = "len" THEN [status |-> "blob", reader |-> r]
         ELSE IF got = "error" THEN [status |-> "error", reader |-> r]
         ELSE LET pushed == push_file(r, Head(r.file_paths), r.current_file_blob_count)
                  rest == Tail(r.file_paths)
              IN  IF rest = <<>>
                  THEN [status |-> "end",
                        reader |-> [pushed EXCEPT !.file_paths = rest, !.open = FALSE]]
                  ELSE read_len([pushed EXCEPT !.file_paths = rest, !.pos = 0,
                                               !.current_file_blob_count = 0])

\* DirectoryJournalWriter::new on the reader's base.
new_writer(r, path) ==
    [file_path |-> path, current_file_size |-> 0, current_file_blob_count |-> 0,
     previous_files |-> r.previous_files, total_blob_count |-> r.total_blob_count]

\* A faulty variant of get_blob_count: the blobs of the current file are
\* left out.
get_blob_count_previous(w) == w.total_blob_count

\* DirectoryJournalWriter::get_blob_count.
get_blob_count(w) == w.total_blob_count + w.current_file_blob_count

\* DirectoryJournalBase::dispose_oldest_blobs: the number of files removed.
RECURSIVE base_dispose(_, _)
base_dispose(previous_files, blob_count) ==
    IF previous_files # <<>> /\ blob_count >= Head(previous_files).blob_count
    THEN 1 + base_dispose(Tail(previous_files),
                          blob_count - Head(previous_files).blob_count)
    ELSE 0

\* DirectoryJournalWriter::dispose_oldest_blobs: the number of files removed.
dispose_oldest_blobs(w, blob_count) ==
    IF blob_count > w.current_file_blob_count
    THEN base_dispose(w.previous_files, blob_count - w.current_file_blob_count)
    ELSE 0

\* ------------------------------------------------------------ recovery
\* JournalService::write_mutation: the blob of a mutation.
write_mutation(req, e) ==
    [len |-> 8 + encoded_len(req.mutation), epoch |-> e,
     payload |-> encode(req.mutation),
     mutation |-> req.mutation, id |-> req.id]

decode_blob_ok(blob) == blob.len >= 9

\* A faulty variant of validate_blob_epoch: the first blob is not compared
\* with the snapshot.
validate_blob_epoch_chain_only(e, snap_epoch, last) ==
    ~(last # NoEpoch /\ last[1] + 1 # e)

\* validate_blob_epoch: Ok unless one of the two bail! conditions holds.
validate_blob_epoch(e, snap_epoch, last) ==
    /\ ~(last # NoEpoch /\ last[1] + 1 # e)
    /\ ~(last = NoEpoch /\ e > snap_epoch + 1)

Proposal(mutation, e) == [type |-> "Proposal", mutation |-> mutation, epoch |-> e]

\* A faulty variant of replayed: the blob of the snapshot's own epoch is
\* proposed again.
replayed_from_snapshot(e, snap_epoch) == e >= snap_epoch

\* restore(): the blobs past the snapshot are proposed.
replayed(e, snap_epoch) == e > snap_epoch

\* restore(): one blob read, checked and, past the snapshot, proposed.
RestoreBlob ==
    /\ proc = "up"
    /\ ~stopped("journal")
    /\ jpc = "restore"
    /\ LET rl == read_len(reader)
           r == rl.reader
       IN  /\ rl.status = "blob"
           /\ read_exact_ok(r)
           /\ LET blob == FileOf(Head(r.file_paths)).blobs[r.pos + 1] IN
              /\ decode_blob_ok(blob)
              /\ validate_blob_epoch(blob.epoch, snapshot_epoch, last_epoch)
              /\ IF replayed(blob.epoch, snapshot_epoch)
                 THEN /\ Len(machine_chan) < machine_queue_size
                      /\ snapshot_chan' = Append(snapshot_chan,
                                                 [mutation |-> decode(blob.payload),
                                                  epoch |-> blob.epoch])
                      /\ machine_chan' = Append(machine_chan,
                                                Proposal(decode(blob.payload), blob.epoch))
                 ELSE UNCHANGED <<snapshot_chan, machine_chan, cancelVars>>
              /\ last_epoch' = Some(blob.epoch)
              /\ reader' = [r EXCEPT !.pos = @ + 1, !.current_file_blob_count = @ + 1]
    /\ UNCHANGED <<diskVars, procVars, jpc, writer, snapshot_epoch, persisted_epoch,
                   external_epoch, batch, sent, request_chan, min_epoch_chan,
                   machineVars, snapVars, rpcVars, histVars>>

\* restore(): a file that ends inside a record, a blob that does not decode
\* or an epoch that does not follow: the journal thread fails and the
\* process exits.
RestoreError ==
    /\ proc = "up"
    /\ ~stopped("journal")
    /\ jpc = "restore"
    /\ LET rl == read_len(reader)
           r == rl.reader
       IN  \/ rl.status = "error"
           \/ rl.status = "blob" /\ ~read_exact_ok(r)
           \/ /\ rl.status = "blob"
              /\ read_exact_ok(r)
              /\ LET blob == FileOf(Head(r.file_paths)).blobs[r.pos + 1] IN
                 \/ ~decode_blob_ok(blob)
                 \/ ~validate_blob_epoch(blob.epoch, snapshot_epoch, last_epoch)
    /\ Fail("restore")

\* The blobs recovery adopts that no fsync of an earlier run had covered.
Adopted ==
    LET ids == {plog[i].id : i \in 1..Len(plog)}
    IN  SelectSeq(DiskBlobs, LAMBDA b : b.id \notin ids)

\* restore(): the end of the journal: the writer opens its file, last_epoch
\* is checked against the snapshot and published.
RestoreEnd ==
    /\ proc = "up"
    /\ ~stopped("journal")
    /\ jpc = "restore"
    /\ LET rl == read_len(reader)
           last == IF last_epoch = NoEpoch THEN 0 ELSE last_epoch[1]
       IN  /\ rl.status = "end"
           /\ jfiles' = Append(jfiles, NewFile(clock))
           /\ clock' = clock + 1
           /\ IF last > 0 /\ last < snapshot_epoch
              THEN /\ Failed("restore")
                   /\ UNCHANGED <<snapfile, proc, runs, journalVars, chanVars,
                                  machineVars, snapVars, rpcVars, histVars>>
              ELSE /\ writer' = new_writer(rl.reader, clock)
                   /\ reader' = rl.reader
                   /\ persisted_epoch' = last
                   /\ external_epoch' = last
                   /\ jpc' = "serve"
                   /\ recovered' = Some(last)
                   /\ plog' = plog \o [i \in 1..Len(Adopted) |->
                                         [id |-> Adopted[i].id, epoch |-> Adopted[i].epoch,
                                          mutation |-> Adopted[i].mutation,
                                          fsynced |-> FALSE]]
                   /\ UNCHANGED <<snapfile, procVars, snapshot_epoch, last_epoch,
                                  batch, sent, chanVars, machineVars, snapVars,
                                  rpcVars, acked, answers, disposed, remove_failed, snap_done,
                                  handled_min, cancelVars>>


\* ---------------------------------------------------- journal serve loop
\* A faulty variant of the readiness gate: RPCs are served from the start of
\* the process.
RpcReady_Early == proc = "up"

\* start_server: RPCs are served once restore() has returned and signalled.
RpcReady == proc = "up" /\ jpc # "restore"

\* A faulty variant of take_count: the channel is drained whatever the
\* batch size.
take_count_all(chan) == Len(chan)

\* process_request_batch: the first request and whatever try_recv yields,
\* up to batch_size requests.
take_count(chan) ==
    IF batch_size <= 1 THEN 1 ELSE Min(Len(chan), batch_size)

\* A faulty variant of assign_epoch: the index in the batch is left out.
assign_epoch_same(persisted, index) == persisted + 1

\* serve(): the epochs of a batch.
assign_epoch(persisted, index) == persisted + 1 + index

\* DirectoryJournalWriter::append_blob, counters only.
append_blob(w, blob) ==
    [w EXCEPT !.current_file_size = @ + blob.len + 4,
              !.current_file_blob_count = @ + 1]

RECURSIVE append_all(_, _)
append_all(w, blobs) ==
    IF blobs = <<>> THEN w ELSE append_all(append_blob(w, Head(blobs)), Tail(blobs))

\* A faulty variant of remaining: the last request of the batch is left in
\* the channel.
remaining_with_last(chan, n) == SubSeq(chan, n, Len(chan))

\* process_request_batch: what recv and try_recv leave in the request
\* channel when they have taken n requests.
remaining(chan, n) == SubSeq(chan, n + 1, Len(chan))

\* serve(): a batch is taken from the request channel, its mutations get
\* their epochs and are appended to the current journal file.
ServeBatch ==
    /\ proc = "up"
    /\ ~stopped("journal")
    /\ jpc = "serve"
    /\ request_chan # <<>>
    /\ LET n == take_count(request_chan)
           proposals == [i \in 1..n |->
                           write_mutation(request_chan[i],
                                          assign_epoch(persisted_epoch, i - 1))]
       IN  /\ batch' = proposals
           /\ request_chan' = remaining(request_chan, n)
           /\ writer' = append_all(writer, proposals)
           /\ jfiles' = [i \in 1..Len(jfiles) |->
                           IF jfiles[i].id = writer.file_path
                           THEN [jfiles[i] EXCEPT !.blobs = @ \o proposals]
                           ELSE jfiles[i]]
    /\ jpc' = "persist"
    /\ handled_min' = 0
    /\ UNCHANGED <<snapfile, clock, procVars, reader, snapshot_epoch, last_epoch,
                   persisted_epoch, external_epoch, sent, machine_chan,
                   snapshot_chan, min_epoch_chan, machineVars, snapVars, rpcVars,
                   acked, answers, plog, disposed, remove_failed, snap_done, recovered, cancelVars>>

\* serve(): append_blob fails on a mutation of the batch: the mutations
\* before it are in the writer's buffer or in the file, and serve() returns
\* the error.
AppendError ==
    /\ proc = "up"
    /\ ~stopped("journal")
    /\ jpc = "serve"
    /\ request_chan # <<>>
    /\ LET n == take_count(request_chan)
           proposals == [i \in 1..n |->
                           write_mutation(request_chan[i],
                                          assign_epoch(persisted_epoch, i - 1))]
       IN  \E k \in 0..(n - 1) :
           /\ batch' = proposals
           /\ request_chan' = SubSeq(request_chan, n + 1, Len(request_chan))
           /\ writer' = append_all(writer, SubSeq(proposals, 1, k + 1))
           /\ jfiles' = [i \in 1..Len(jfiles) |->
                           IF jfiles[i].id = writer.file_path
                           THEN [jfiles[i] EXCEPT !.blobs = @ \o SubSeq(proposals, 1, k)]
                           ELSE jfiles[i]]
    /\ Failed("journal_io")
    /\ UNCHANGED <<snapfile, clock, proc, runs, jpc, reader, snapshot_epoch,
                   last_epoch, persisted_epoch, external_epoch, sent, machine_chan,
                   snapshot_chan, min_epoch_chan, machineVars, snapVars, rpcVars,
                   histVars>>

\* serve(): persist() fails in flush or in sync_data, and serve() returns
\* the error.
PersistError ==
    /\ proc = "up"
    /\ ~stopped("journal")
    /\ jpc = "persist"
    /\ Fail("journal_io")

\* A faulty variant of rotates: the limit has to be exceeded.
rotates_over(w, limit) == w.current_file_size > limit

\* DirectoryJournalWriter::persist: whether the current file is closed.
rotates(w, limit) == w.current_file_size >= limit

\* DirectoryJournalWriter::persist: flush, fsync and, at the soft limit, a
\* new current file.
JournalPersist ==
    /\ proc = "up"
    /\ ~stopped("journal")
    /\ jpc = "persist"
    /\ LET synced == [i \in 1..Len(jfiles) |->
                        IF jfiles[i].id = writer.file_path
                        THEN [jfiles[i] EXCEPT !.synced = Len(jfiles[i].blobs)]
                        ELSE jfiles[i]]
       IN  IF rotates(writer, file_size_soft_limit)
           THEN /\ jfiles' = Append(synced, NewFile(clock))
                /\ clock' = clock + 1
                /\ writer' = [push_file(writer, writer.file_path,
                                        writer.current_file_blob_count)
                                EXCEPT !.file_path = clock,
                                       !.current_file_size = 0,
                                       !.current_file_blob_count = 0]
           ELSE /\ jfiles' = synced
                /\ UNCHANGED <<clock, writer, cancelVars>>
    /\ plog' = plog \o [i \in 1..Len(batch) |->
                          [id |-> batch[i].id, epoch |-> batch[i].epoch,
                           mutation |-> batch[i].mutation, fsynced |-> TRUE]]
    /\ jpc' = "publish"
    /\ UNCHANGED <<snapfile, procVars, reader, snapshot_epoch, last_epoch,
                   persisted_epoch, external_epoch, batch, sent, chanVars,
                   machineVars, snapVars, rpcVars, acked, answers, disposed, remove_failed,
                   snap_done, handled_min, recovered, cancelVars>>

\* A faulty variant of the publish step: the field is advanced and the store
\* into the shared atomic is left out.
JournalPublish_NoStore ==
    /\ proc = "up"
    /\ ~stopped("journal")
    /\ jpc = "publish"
    /\ persisted_epoch' = persisted_epoch + Len(batch)
    /\ jpc' = "notify"
    /\ UNCHANGED <<diskVars, procVars, reader, writer, snapshot_epoch, last_epoch,
                   external_epoch, batch, sent, chanVars, machineVars, snapVars,
                   rpcVars, histVars>>

\* A faulty variant of published: the epoch is advanced by one per batch.
published_one(persisted, n) == persisted + 1

\* serve(): persisted_epoch after a batch of n mutations.
published(persisted, n) == persisted + n

\* serve(): persisted_epoch is advanced and stored into the shared atomic.
JournalPublish ==
    /\ proc = "up"
    /\ ~stopped("journal")
    /\ jpc = "publish"
    /\ persisted_epoch' = published(persisted_epoch, Len(batch))
    /\ external_epoch' = persisted_epoch'
    /\ jpc' = "notify"
    /\ UNCHANGED <<diskVars, procVars, reader, writer, snapshot_epoch, last_epoch,
                   batch, sent, chanVars, machineVars, snapVars, rpcVars, histVars>>

\* A faulty variant of notified: the error of a send is returned.
notified_strict(delivered) == delivered

\* serve(): notify.send(()).ok(): whether serve() goes on after the send,
\* given whether the caller still holds the receiver.
notified(delivered) == TRUE

\* serve(): the callers of the batch are notified.
JournalNotify ==
    /\ proc = "up"
    /\ ~stopped("journal")
    /\ jpc = "notify"
    /\ IF \A i \in 1..Len(batch) : notified(batch[i].id \notin dropped)
       THEN /\ acked' = acked \cup
                   {[id |-> batch[i].id, epoch |-> batch[i].epoch,
                     mutation |-> batch[i].mutation] :
                    i \in {j \in 1..Len(batch) : batch[j].id \notin dropped}}
            /\ jpc' = "propose"
            /\ UNCHANGED <<procVars>>
       ELSE /\ Failed("notify")
            /\ UNCHANGED <<proc, runs, jpc, acked>>
    /\ UNCHANGED <<diskVars, reader, writer, snapshot_epoch, last_epoch,
                   persisted_epoch, external_epoch, batch, sent, chanVars,
                   machineVars, snapVars, rpcVars, answers, plog, disposed, remove_failed,
                   snap_done, handled_min, recovered, cancelVars>>

\* serve(): send_proposal for the next proposal of the batch; the send to
\* the machine actor waits for room in its channel.
JournalPropose ==
    /\ proc = "up"
    /\ ~stopped("journal")
    /\ jpc = "propose"
    /\ Len(machine_chan) < machine_queue_size
    /\ LET p == batch[sent + 1] IN
       /\ snapshot_chan' = Append(snapshot_chan,
                                  [mutation |-> p.mutation, epoch |-> p.epoch])
       /\ machine_chan' = Append(machine_chan, Proposal(p.mutation, p.epoch))
    /\ IF sent + 1 = Len(batch)
       THEN jpc' = "serve" /\ batch' = <<>> /\ sent' = 0
       ELSE jpc' = "propose" /\ batch' = batch /\ sent' = sent + 1
    /\ UNCHANGED <<diskVars, procVars, reader, writer, snapshot_epoch, last_epoch,
                   persisted_epoch, external_epoch, request_chan, min_epoch_chan,
                   machineVars, snapVars, rpcVars, histVars>>

\* A faulty variant of desired_len: off by one, one blob too few is kept.
desired_len_short(persisted, min_epoch) == persisted - min_epoch

\* handle_new_min_epoch: the journal length that has to stay.
desired_len(persisted, min_epoch) == persisted + 1 - min_epoch

\* serve(): a watermark is taken from the min-epoch channel and handled.
ServeMinEpoch ==
    /\ proc = "up"
    /\ ~stopped("journal")
    /\ jpc = "serve"
    /\ min_epoch_chan # <<>>
    /\ LET min_epoch == Head(min_epoch_chan) IN
       IF ~(min_epoch <= persisted_epoch + 1)
       THEN Fail("min_epoch")
       ELSE LET desired == desired_len(persisted_epoch, min_epoch)
                actual == get_blob_count(writer)
                k == IF actual > desired
                     THEN dispose_oldest_blobs(writer, actual - desired)
                     ELSE 0
                gone == {writer.previous_files[i].path : i \in 1..k}
                kept == SubSeq(writer.previous_files, k + 1, Len(writer.previous_files))
            IN  /\ jfiles' = SelectSeq(jfiles, LAMBDA f : f.id \notin gone)
                /\ writer' = [writer EXCEPT
                                !.previous_files = kept,
                                !.total_blob_count =
                                    @ - SeqSum([i \in 1..k |->
                                                  writer.previous_files[i].blob_count])]
                /\ disposed' = disposed \cup
                       {[epoch |-> b.epoch,
                         snapshot |-> IF snap_done = {} THEN 0 ELSE SetMax(snap_done)] :
                        b \in UNION {Range(jfiles[i].blobs) :
                                       i \in {j \in 1..Len(jfiles) : jfiles[j].id \in gone}}}
                /\ min_epoch_chan' = Tail(min_epoch_chan)
                /\ handled_min' = min_epoch
                /\ remove_failed' = remove_failed
                /\ UNCHANGED <<snapfile, clock, procVars, jpc, reader, snapshot_epoch,
                               last_epoch, persisted_epoch, external_epoch, batch,
                               sent, request_chan, machine_chan, snapshot_chan,
                               machineVars, snapVars, rpcVars, acked, answers, plog,
                               snap_done, recovered, cancelVars>>

\* A faulty variant of registered_after_error: the file is popped although
\* its removal failed.
registered_after_error_popped(previous_files, j) ==
    SubSeq(previous_files, j + 1, Len(previous_files))

\* DirectoryJournalBase::dispose_oldest_blobs returning the error of the
\* j-th remove_file: the files that stay registered.
registered_after_error(previous_files, j) ==
    SubSeq(previous_files, j, Len(previous_files))

\* serve(): a watermark is handled and remove_file fails on an existing
\* file with an error other than NotFound: the files before it are gone,
\* dispose_oldest_blobs returns the error, handle_new_min_epoch logs it
\* and returns Ok.
ServeMinEpochRemoveError ==
    /\ proc = "up"
    /\ ~stopped("journal")
    /\ jpc = "serve"
    /\ min_epoch_chan # <<>>
    /\ LET min_epoch == Head(min_epoch_chan)
           desired == desired_len(persisted_epoch, min_epoch)
           actual == get_blob_count(writer)
           k == IF actual > desired
                THEN dispose_oldest_blobs(writer, actual - desired)
                ELSE 0
       IN  /\ min_epoch <= persisted_epoch + 1
           /\ \E j \in 1..k :
                 LET gone == {writer.previous_files[i].path : i \in 1..(j - 1)} IN
                 /\ writer.previous_files[j].path \in FileIds
                 /\ jfiles' = SelectSeq(jfiles, LAMBDA f : f.id \notin gone)
                 /\ writer' = [writer EXCEPT
                                 !.previous_files = registered_after_error(@, j),
                                 !.total_blob_count =
                                     @ - SeqSum([i \in 1..(j - 1) |->
                                                   writer.previous_files[i].blob_count])]
                 /\ disposed' = disposed \cup
                        {[epoch |-> b.epoch,
                          snapshot |-> IF snap_done = {} THEN 0 ELSE SetMax(snap_done)] :
                         b \in UNION {Range(jfiles[i].blobs) :
                                        i \in {l \in 1..Len(jfiles) : jfiles[l].id \in gone}}}
                 /\ remove_failed' = remove_failed \cup
                        {[path |-> writer.previous_files[j].path,
                          persisted |-> persisted_epoch]}
           /\ min_epoch_chan' = Tail(min_epoch_chan)
           /\ handled_min' = min_epoch
    /\ UNCHANGED <<snapfile, clock, procVars, jpc, reader, snapshot_epoch,
                   last_epoch, persisted_epoch, external_epoch, batch,
                   sent, request_chan, machine_chan, snapshot_chan,
                   machineVars, snapVars, rpcVars, acked, answers, plog,
                   snap_done, recovered, cancelVars>>

\* A closed journal file is removed from outside the process while it runs.
JournalFileRemoved ==
    /\ proc = "up"
    /\ jpc # "restore"
    /\ \E i \in 1..Len(writer.previous_files) :
          /\ writer.previous_files[i].path \in FileIds
          /\ jfiles' = SelectSeq(jfiles,
                                 LAMBDA f : f.id # writer.previous_files[i].path)
    /\ UNCHANGED <<snapfile, clock, procVars, journalVars, chanVars, machineVars,
                   snapVars, rpcVars, histVars>>


\* --------------------------------------------------------- machine actor
\* A faulty variant of answers_now: off by one, a query is answered one
\* epoch early.
answers_now_early(current, min_epoch) == current + 1 >= min_epoch

\* handle_query: whether the query is answered at once.
answers_now(current, min_epoch) == current >= min_epoch

\* A faulty variant of applied: the epoch counter is one bit wide.
applied_narrow(current) == (current + 1) % 2

\* handle_proposal: the epoch after one more mutation is applied.
applied(current) == current + 1

\* handle_proposal: the deferred queries that are popped and answered.
\* BinaryHeap::peek under the reversed Ord of QueryPqItem: a query with the
\* least min_epoch.
peek(queue) ==
    CHOOSE q \in queue : \A r \in queue : q.min_epoch <= r.min_epoch

\* A faulty variant of released: an `if` in place of the `while`, one query
\* is popped at most.
released_once(queue, current) ==
    IF queue # {} /\ current >= peek(queue).min_epoch
    THEN {peek(queue)}
    ELSE {}

\* handle_proposal: the queries popped while the top of the heap has a
\* min_epoch of at most the current epoch.
RECURSIVE released(_, _)
released(queue, current) ==
    IF queue # {} /\ current >= peek(queue).min_epoch
    THEN {peek(queue)} \cup released(queue \ {peek(queue)}, current)
    ELSE {}

Answer(q, map, current, was_deferred) ==
    [id |-> q.id, key |-> q.key, min_epoch |-> q.min_epoch, seen |-> q.seen,
     status |-> query_state(map, q.key), epoch |-> current,
     deferred |-> was_deferred, run |-> runs]

\* A faulty variant of replied: the error of a send is returned.
replied_strict(delivered) == delivered

\* handle_proposal, handle_query: result.send(status).ok(): whether the
\* actor goes on after the send, given whether the caller still holds the
\* receiver.
replied(delivered) == TRUE

\* The sends of the answers to the queries in out, computed from map at the
\* epoch now.
Reply(out, map, now, was_deferred) ==
    IF \A q \in out : replied(q.id \notin qdropped)
    THEN /\ answers' = answers \cup
                {Answer(q, map, now, was_deferred) : q \in out \ {d \in out : d.id \in qdropped}}
         /\ undelivered' = undelivered \cup
                {Answer(q, map, now, was_deferred) : q \in {d \in out : d.id \in qdropped}}
         /\ UNCHANGED <<panicked, failed>>
    ELSE /\ Failed("reply")
         /\ UNCHANGED <<answers, undelivered>>

\* serve() on a Proposal: handle_proposal.
MachineProposal ==
    /\ proc = "up"
    /\ ~stopped("machine")
    /\ machine_chan # <<>>
    /\ Head(machine_chan).type = "Proposal"
    /\ LET p == Head(machine_chan) IN
       IF p.epoch # epoch + 1
       THEN /\ Failed("machine")
            /\ machine_chan' = Tail(machine_chan)
            /\ received' = received + 1
            /\ UNCHANGED <<diskVars, proc, runs, journalVars, request_chan,
                           snapshot_chan, min_epoch_chan, machine, epoch,
                           query_queue, snapVars, rpcVars, histVars>>
       ELSE LET map == apply_mutation(machine, p.mutation)
                now == applied(epoch)
                out == released(query_queue, now)
            IN  /\ machine' = map
                /\ epoch' = now
                /\ received' = received + 1
                /\ query_queue' = query_queue \ out
                /\ Reply(out, map, now, TRUE)
                /\ machine_chan' = Tail(machine_chan)
                /\ UNCHANGED <<diskVars, proc, runs, journalVars, request_chan,
                               snapshot_chan, min_epoch_chan, snapVars, rpcVars,
                               acked, plog, disposed, remove_failed, snap_done, handled_min,
                               recovered, dropped, qdropped>>

\* serve() on a Query: handle_query.
MachineQuery ==
    /\ proc = "up"
    /\ ~stopped("machine")
    /\ machine_chan # <<>>
    /\ Head(machine_chan).type = "Query"
    /\ LET q == Head(machine_chan) IN
       IF answers_now(epoch, q.min_epoch)
       THEN /\ Reply({q}, machine, epoch, FALSE)
            /\ UNCHANGED query_queue
       ELSE /\ query_queue' = query_queue \cup {q}
            /\ UNCHANGED <<answers, undelivered, panicked, failed>>
    /\ machine_chan' = Tail(machine_chan)
    /\ UNCHANGED <<diskVars, proc, runs, journalVars, request_chan, snapshot_chan,
                   min_epoch_chan, machine, epoch, received, snapVars, rpcVars,
                   acked, plog, disposed, remove_failed, snap_done, handled_min, recovered,
                   dropped, qdropped>>

\* -------------------------------------------------------- snapshot actor
RECURSIVE apply_all(_, _)
apply_all(map, proposals) ==
    IF proposals = <<>> THEN map
    ELSE apply_all(apply_mutation(map, Head(proposals).mutation), Tail(proposals))

\* A faulty variant of applied_batch: a batch counts as one mutation.
applied_batch_one(current, n) == current + 1

\* apply_mutation_batch: the epoch after a batch of n mutations.
applied_batch(current, n) == current + n

\* serve(): whether a snapshot is due after a batch.
\* A faulty variant of snapshot_due: the interval has to be exceeded.
snapshot_due_after(current, last, interval) == current - last > interval

\* serve(): the test after each batch.
snapshot_due(current, last, interval) == current - last >= interval

\* apply_mutation_batch and the check that follows it in serve(), for a
\* snapshot actor constructed with the given snapshot_interval.
SnapshotApplyEvery(interval) ==
    /\ proc = "up"
    /\ ~stopped("snapshot")
    /\ spc = "apply"
    /\ snapshot_chan # <<>>
    /\ LET n == Min(Len(snapshot_chan), snapshot_batch_size)
           taken == SubSeq(snapshot_chan, 1, n)
       IN  IF \E i \in 1..n : taken[i].epoch # sepoch + i
           THEN LET k == SetMin({i \in 1..n : taken[i].epoch # sepoch + i}) IN
                /\ Failed("snapshot")
                /\ smachine' = apply_all(smachine, SubSeq(taken, 1, k - 1))
                /\ sepoch' = applied_batch(sepoch, k - 1)
                /\ sreceived' = sreceived + k
                /\ snapshot_chan' = SubSeq(snapshot_chan, k + 1, Len(snapshot_chan))
                /\ UNCHANGED <<diskVars, proc, runs, journalVars, request_chan,
                               machine_chan, min_epoch_chan, machineVars, spc,
                               last_snapshot_epoch, rpcVars, histVars>>
           ELSE /\ smachine' = apply_all(smachine, taken)
                /\ sepoch' = applied_batch(sepoch, n)
                /\ sreceived' = sreceived + n
                /\ snapshot_chan' = SubSeq(snapshot_chan, n + 1, Len(snapshot_chan))
                /\ spc' = IF snapshot_due(applied_batch(sepoch, n),
                                          last_snapshot_epoch, interval)
                          THEN "snapshot" ELSE "apply"
                /\ UNCHANGED <<diskVars, procVars, journalVars, request_chan,
                               machine_chan, min_epoch_chan, machineVars,
                               last_snapshot_epoch, rpcVars, histVars>>

SnapshotApply == SnapshotApplyEvery(snapshot_interval)

\* A faulty variant of watermark: the epoch after the next one.
watermark_ahead(current) == current + 2

\* make_snapshot: the watermark of a snapshot, min_epoch_sender.send(epoch + 1).
watermark(current) == current + 1

\* make_snapshot: the snapshot is created, written and fsynced, then the
\* watermark is sent.

SnapshotMake ==
    /\ proc = "up"
    /\ ~stopped("snapshot")
    /\ spc = "snapshot"
    /\ \E order \in Orders(smachine) :
          LET back == read_snapshot(snapshot_bytes(smachine, sepoch, order)) IN
          snapfile' = [exists |-> TRUE, epoch |-> back.epoch, map |-> back.map,
                       readable |-> TRUE, whole |-> TRUE]
    /\ snap_done' = snap_done \cup {sepoch}
    /\ min_epoch_chan' = Append(min_epoch_chan, watermark(sepoch))
    /\ last_snapshot_epoch' = sepoch
    /\ spc' = "apply"
    /\ UNCHANGED <<jfiles, clock, procVars, journalVars, request_chan, machine_chan,
                   snapshot_chan, machineVars, smachine, sepoch, sreceived, rpcVars,
                   acked, answers, plog, disposed, remove_failed, handled_min, recovered, cancelVars>>

\* A faulty variant of SnapshotError: the watermark is sent although the
\* snapshot was not persisted.
SnapshotError_Sends ==
    /\ proc = "up"
    /\ ~stopped("snapshot")
    /\ spc = "snapshot"
    /\ Failed("snapshot_io")
    /\ min_epoch_chan' = Append(min_epoch_chan, watermark(sepoch))
    /\ UNCHANGED <<diskVars, proc, runs, journalVars, request_chan, machine_chan,
                   snapshot_chan, machineVars, snapVars, rpcVars, histVars>>

\* make_snapshot: creating, writing or persisting the snapshot fails, and
\* serve() returns the error.
SnapshotError ==
    /\ proc = "up"
    /\ ~stopped("snapshot")
    /\ spc = "snapshot"
    /\ Fail("snapshot_io")

\* ---------------------------------------------------------- RPC handlers
\* Set: apply_mutation sends a PersistMutation request and awaits the notify.
ClientSetFrom(inputs, max_sets) ==
    /\ RpcReady
    /\ next_id <= max_sets
    /\ Len(request_chan) < request_queue_size
    /\ \E m \in inputs :
          request_chan' = Append(request_chan, [id |-> next_id, mutation |-> m])
    /\ next_id' = next_id + 1
    /\ UNCHANGED <<diskVars, procVars, journalVars, machine_chan, snapshot_chan,
                   min_epoch_chan, machineVars, snapVars, gets, n_gets, histVars>>

ClientSetUpTo(max_sets) == ClientSetFrom(SetInputs, max_sets)

ClientSet == ClientSetUpTo(MaxSets)

\* Get: query_state reads persisted_epoch as the query's min_epoch.
read_min_epoch == external_epoch

ClientGetUpTo(max_gets) ==
    /\ RpcReady
    /\ n_gets < max_gets
    /\ \E k \in GetInputs :
          gets' = gets \cup {[type |-> "Query", id |-> n_gets + 1, key |-> k,
                              min_epoch |-> read_min_epoch,
                              seen |-> {a.id : a \in acked}]}
    /\ n_gets' = n_gets + 1
    /\ UNCHANGED <<diskVars, procVars, journalVars, chanVars, machineVars, snapVars,
                   next_id, histVars>>

ClientGet == ClientGetUpTo(MaxGets)

\* Set: the caller gives up while its request waits in the channel or in
\* the batch: the notify receiver is dropped.
ClientCancelSet ==
    /\ RpcReady
    /\ \E id \in ({request_chan[i].id : i \in 1..Len(request_chan)}
                   \cup {batch[i].id : i \in 1..Len(batch)})
                  \ ({a.id : a \in acked} \cup dropped) :
          /\ jpc \in {"serve", "persist", "publish", "notify"}
          /\ dropped' = dropped \cup {id}
    /\ UNCHANGED <<diskVars, procVars, journalVars, chanVars, machineVars,
                   snapVars, rpcVars, acked, answers, plog, disposed, remove_failed, snap_done,
                   handled_min, recovered, qdropped, undelivered>>

\* Get: the caller gives up while its Query waits in the machine actor's
\* channel or in the deferred heap: the reply receiver is dropped.
ClientCancelGet ==
    /\ RpcReady
    /\ \E id \in ({machine_chan[i].id :
                      i \in {j \in 1..Len(machine_chan) :
                                machine_chan[j].type = "Query"}}
                   \cup {q.id : q \in query_queue}) \ qdropped :
          qdropped' = qdropped \cup {id}
    /\ UNCHANGED <<diskVars, procVars, journalVars, chanVars, machineVars,
                   snapVars, rpcVars, acked, answers, plog, disposed, remove_failed, snap_done,
                   handled_min, recovered, dropped, undelivered>>

\* Get: the Query is sent to the machine actor.
ClientQuery ==
    /\ RpcReady
    /\ Len(machine_chan) < machine_queue_size
    /\ \E q \in gets :
          /\ machine_chan' = Append(machine_chan, q)
          /\ gets' = gets \ {q}
    /\ UNCHANGED <<diskVars, procVars, journalVars, request_chan, snapshot_chan,
                   min_epoch_chan, machineVars, snapVars, next_id, n_gets, histVars>>

\* ------------------------------------------------------------ the system
Next ==
    \/ Start
    \/ Crash
    \/ Die
    \/ RestoreBlob
    \/ RestoreError
    \/ RestoreEnd
    \/ ServeBatch
    \/ JournalPersist
    \/ JournalPublish
    \/ JournalNotify
    \/ JournalPropose
    \/ ServeMinEpoch
    \/ MachineProposal
    \/ MachineQuery
    \/ SnapshotApply
    \/ SnapshotMake
    \/ ClientSet
    \/ ClientGet
    \/ ClientQuery

Spec == Init /\ [][Next]_vars

\* The same system with two Gets, over fewer runs.
QueryNext ==
    \/ StartUpTo(MaxQueryRuns)
    \/ CrashUpTo(MaxQueryRuns)
    \/ Die
    \/ RestoreBlob
    \/ RestoreError
    \/ RestoreEnd
    \/ ServeBatch
    \/ JournalPersist
    \/ JournalPublish
    \/ JournalNotify
    \/ JournalPropose
    \/ ServeMinEpoch
    \/ MachineProposal
    \/ MachineQuery
    \/ SnapshotApply
    \/ SnapshotMake
    \/ ClientSetUpTo(MaxQuerySets)
    \/ ClientGetUpTo(MaxQueryGets)
    \/ ClientQuery

QuerySpec == Init /\ [][QueryNext]_vars

\* One run from an empty data directory, without crash and I/O failure.
LiveNext ==
    \/ StartUpTo(LiveRuns)
    \/ RestoreEnd
    \/ ServeBatch
    \/ JournalPersist
    \/ JournalPublish
    \/ JournalNotify
    \/ JournalPropose
    \/ ServeMinEpoch
    \/ MachineProposal
    \/ MachineQuery
    \/ SnapshotApply
    \/ SnapshotMake
    \/ ClientSetUpTo(MaxLiveSets)
    \/ ClientGetUpTo(MaxLiveGets)
    \/ ClientQuery

\* Each actor runs on a thread of its own and each RPC handler is a task of
\* the runtime: a step that stays possible is taken. Clients need not send.
LiveFairness ==
    /\ WF_vars(StartUpTo(LiveRuns))
    /\ WF_vars(RestoreEnd)
    /\ WF_vars(ServeBatch)
    /\ WF_vars(JournalPersist)
    /\ WF_vars(JournalPublish)
    /\ WF_vars(JournalNotify)
    /\ WF_vars(JournalPropose)
    /\ WF_vars(ServeMinEpoch)
    /\ WF_vars(MachineProposal)
    /\ WF_vars(MachineQuery)
    /\ WF_vars(SnapshotApply)
    /\ WF_vars(SnapshotMake)
    /\ WF_vars(ClientQuery)

LiveSpec == Init /\ [][LiveNext]_vars /\ LiveFairness

\* The journal directories a recovery can be started on, written by earlier
\* runs and possibly thinned since (a file lost, a directory restored from a
\* copy): up to MaxFoundBlobs whole blobs of any epochs, in one file or with
\* the first blob in a file of its own.
FoundMutation == [key |-> <<1>>, value |-> <<7>>]

FoundBlob(e, i) ==
    [len |-> 8 + encoded_len(FoundMutation), epoch |-> e,
     payload |-> encode(FoundMutation),
     mutation |-> FoundMutation, id |-> i]

FoundFile(id, epochs, first) ==
    [id |-> id, synced |-> Len(epochs), tail |-> 0,
     blobs |-> [i \in 1..Len(epochs) |-> FoundBlob(epochs[i], first + i - 1)]]

FoundEpochs ==
    UNION {[1..n -> 1..MaxFoundEpoch] : n \in 0..MaxFoundBlobs}

FoundJournals ==
    {<<>>}
      \cup {<<FoundFile(1, es, 1)>> : es \in FoundEpochs \ {<<>>}}
      \cup {<<FoundFile(1, SubSeq(es, 1, 1), 1),
              FoundFile(2, SubSeq(es, 2, Len(es)), 2)>> :
                es \in {s \in FoundEpochs : Len(s) >= 2}}

\* The snapshot directories: no snapshot, or a whole one of some epoch.
FoundSnapshots ==
    {NoSnapshot}
      \cup {[exists |-> TRUE, epoch |-> e, readable |-> TRUE, whole |-> TRUE,
              map |-> apply_mutation(DefaultMachine, FoundMutation)] :
                e \in 1..MaxFoundSnapshot}

RecoveryInit ==
    /\ jfiles \in FoundJournals
    /\ snapfile \in FoundSnapshots
    /\ clock = 3
    /\ NotStarted

\* One start of the process on such a directory, without clients.
RecoveryNext ==
    \/ StartUpTo(RecoveryRuns)
    \/ Die
    \/ RestoreBlob
    \/ RestoreError
    \/ RestoreEnd
    \/ ServeMinEpoch
    \/ MachineProposal
    \/ SnapshotApply
    \/ SnapshotMake

RecoverySpec == RecoveryInit /\ [][RecoveryNext]_vars

\* The system with a snapshot interval of two epochs, without Gets.
IntervalNext ==
    \/ StartUpTo(MaxIntervalRuns)
    \/ CrashUpTo(MaxIntervalRuns)
    \/ Die
    \/ RestoreBlob
    \/ RestoreError
    \/ RestoreEnd
    \/ ServeBatch
    \/ JournalPersist
    \/ JournalPublish
    \/ JournalNotify
    \/ JournalPropose
    \/ ServeMinEpoch
    \/ MachineProposal
    \/ SnapshotApplyEvery(long_snapshot_interval)
    \/ SnapshotMake
    \/ ClientSetUpTo(MaxIntervalSets)

IntervalSpec == Init /\ [][IntervalNext]_vars

\* The system with clients that also set empty keys and values, without Gets.
EmptyNext ==
    \/ StartUpTo(MaxEmptyRuns)
    \/ CrashUpTo(MaxEmptyRuns)
    \/ Die
    \/ RestoreBlob
    \/ RestoreError
    \/ RestoreEnd
    \/ ServeBatch
    \/ JournalPersist
    \/ JournalPublish
    \/ JournalNotify
    \/ JournalPropose
    \/ ServeMinEpoch
    \/ MachineProposal
    \/ SnapshotApply
    \/ SnapshotMake
    \/ ClientSetFrom(EmptyInputs, MaxEmptySets)

EmptySpec == Init /\ [][EmptyNext]_vars

\* One run in which removals of journal files fail and journal files are
\* removed from outside.
DisposeNext ==
    \/ StartUpTo(DisposeRuns)
    \/ RestoreEnd
    \/ ServeBatch
    \/ JournalPersist
    \/ JournalPublish
    \/ JournalNotify
    \/ JournalPropose
    \/ ServeMinEpoch
    \/ ServeMinEpochRemoveError
    \/ JournalFileRemoved
    \/ MachineProposal
    \/ SnapshotApply
    \/ SnapshotMake
    \/ ClientSetUpTo(MaxDisposeSets)

DisposeSpec == Init /\ [][DisposeNext]_vars

\* The system with failing writes to the journal and to the snapshot.
IoNext ==
    \/ StartUpTo(MaxIoRuns)
    \/ CrashUpTo(MaxIoRuns)
    \/ Die
    \/ RestoreBlob
    \/ RestoreError
    \/ RestoreEnd
    \/ ServeBatch
    \/ AppendError
    \/ JournalPersist
    \/ PersistError
    \/ JournalPublish
    \/ JournalNotify
    \/ JournalPropose
    \/ ServeMinEpoch
    \/ MachineProposal
    \/ MachineQuery
    \/ SnapshotApply
    \/ SnapshotMake
    \/ SnapshotError
    \/ ClientSet
    \/ ClientGet
    \/ ClientQuery

IoSpec == Init /\ [][IoNext]_vars

\* One run from an empty data directory in which the callers of Sets drop
\* their receivers, under the scheduling of LiveSpec.
DropNotifyNext ==
    \/ StartUpTo(LiveRuns)
    \/ RestoreEnd
    \/ ServeBatch
    \/ JournalPersist
    \/ JournalPublish
    \/ JournalNotify
    \/ JournalPropose
    \/ ServeMinEpoch
    \/ MachineProposal
    \/ SnapshotApply
    \/ SnapshotMake
    \/ ClientSetUpTo(MaxCancelSets)
    \/ ClientCancelSet

DropNotifySpec == Init /\ [][DropNotifyNext]_vars /\ LiveFairness

\* One run from an empty data directory in which the callers of Gets drop
\* their receivers, under the scheduling of LiveSpec.
DropReplyNext ==
    \/ StartUpTo(LiveRuns)
    \/ RestoreEnd
    \/ ServeBatch
    \/ JournalPersist
    \/ JournalPublish
    \/ JournalNotify
    \/ JournalPropose
    \/ ServeMinEpoch
    \/ MachineProposal
    \/ MachineQuery
    \/ SnapshotApply
    \/ SnapshotMake
    \/ ClientSetUpTo(MaxReplySets)
    \/ ClientGetUpTo(MaxCancelGets)
    \/ ClientQuery
    \/ ClientCancelGet

DropReplySpec == Init /\ [][DropReplyNext]_vars /\ LiveFairness

\* One run of Sets only, with up to three requests waiting for the journal.
BatchNext ==
    \/ StartUpTo(BatchRuns)
    \/ RestoreEnd
    \/ ServeBatch
    \/ JournalPersist
    \/ JournalPublish
    \/ JournalNotify
    \/ JournalPropose
    \/ ServeMinEpoch
    \/ MachineProposal
    \/ SnapshotApply
    \/ SnapshotMake
    \/ ClientSetUpTo(MaxBatchSets)

BatchSpec == Init /\ [][BatchNext]_vars


\* ------------------------------------------------------------ properties
AckedIds == {a.id : a \in acked}

FsyncedIds == {plog[i].id : i \in {j \in 1..Len(plog) : plog[j].fsynced}}

\* The last mutation of a key in the order the mutations became persistent.
LastOn(k) ==
    plog[SetMax({i \in 1..Len(plog) : plog[i].mutation.key = k})]

IndexOf(id) == CHOOSE i \in 1..Len(plog) : plog[i].id = id

\* The machine actor's state once it has applied the proposals already in
\* its channel.
RecoveredMachine ==
    apply_all(machine, SelectSeq(machine_chan, LAMBDA msg : msg.type = "Proposal"))

\* Recovery has succeeded and no batch of this run has been persisted yet.
JustRecovered ==
    /\ proc = "up"
    /\ recovered # NoEpoch
    /\ jpc \in {"serve", "persist"}
    /\ persisted_epoch = recovered[1]

\* C1: after a successful recovery the recovered machine state holds the
\* effect of every Set acknowledged in an earlier run: for each such Set its
\* key carries the value of the last mutation persisted for that key.
C1_Durability ==
    JustRecovered =>
        \A a \in acked :
            RecoveredMachine[a.mutation.key] = Stored(LastOn(a.mutation.key).mutation.value)

\* C2: a Get issued after Set(k, v) was acknowledged takes a min_epoch at or
\* above the Set's epoch, is answered at a machine epoch at or above it, and
\* replies v or the value of a Set to k persisted after it, never an older
\* value and never the empty reply.
C2_ReadYourWrites ==
    \A ans \in answers : \A a \in acked :
        (a.id \in ans.seen /\ a.mutation.key = ans.key) =>
            /\ ans.min_epoch >= a.epoch
            /\ ans.epoch >= a.epoch
            /\ ans.status \in
                 {plog[j].mutation.value :
                    j \in {i \in IndexOf(a.id)..Len(plog) : plog[i].mutation.key = ans.key}}

\* C3: for every mutation of the batch in hand, persisted_epoch (the field
\* and the atomic) covers it only after the fsync of its blob, its caller is
\* notified only after the atomic covers it, and a Proposal of the batch is
\* sent only after all callers of the batch were notified.
C3_BatchOrdering ==
    \A i \in 1..Len(batch) :
        /\ (external_epoch >= batch[i].epoch \/ persisted_epoch >= batch[i].epoch)
              => batch[i].id \in FsyncedIds
        /\ batch[i].id \in AckedIds => external_epoch >= batch[i].epoch
        /\ i <= sent => \A j \in 1..Len(batch) : batch[j].id \in AckedIds

\* A batch of two, one Proposal sent, the other not yet.
C3_Witness ==
    /\ jpc = "propose"
    /\ Len(batch) = 2
    /\ sent = 1
    /\ batch[2].id \in AckedIds

\* C4: every epoch up to the shared persisted_epoch belongs to a mutation
\* whose blob a completed fsync has covered, or lies within the snapshot
\* loaded at startup.
C4_PublishedIsFsynced ==
    proc = "up" =>
        \A e \in 1..external_epoch :
            \/ e <= snapshot_epoch
            \/ \E i \in 1..Len(plog) : plog[i].epoch = e /\ plog[i].fsynced

\* C5: the n-th mutation ever persisted carries epoch n.
C5_GapFreeEpochs ==
    \A i \in 1..Len(plog) : plog[i].epoch = i

\* C6: the epoch assertions of the machine actor and of the snapshot actor
\* never fail.
C6_NoEpochGap ==
    panicked \notin {"machine", "snapshot"}

\* C7: recovery succeeds only with last_epoch >= snapshot_epoch, last_epoch
\* being 0 for a journal without blobs; so persisted_epoch >= snapshot_epoch
\* after every successful recovery.
C7_RecoveryCoversSnapshot ==
    recovered # NoEpoch =>
        /\ recovered[1] >= snapshot_epoch
        /\ persisted_epoch >= snapshot_epoch

LatestSnapshot == IF snap_done = {} THEN 0 ELSE SetMax(snap_done)

\* C9: every blob of a deleted journal file has an epoch at or below the
\* epoch of a snapshot already written and fsynced, and the journal keeps
\* every fsynced mutation above the latest such snapshot.
C9_TruncationSafety ==
    /\ \A d \in disposed : d.epoch <= d.snapshot
    /\ \A i \in 1..Len(plog) :
          (plog[i].fsynced /\ plog[i].epoch > LatestSnapshot)
              => \E j \in 1..Len(DiskBlobs) : DiskBlobs[j].id = plog[i].id

\* A journal file with a blob in it has been deleted.
C9_Witness ==
    disposed # {}

\* C10: once the watermark S + 1 has been handled, no closed journal file
\* whose highest epoch is <= S is left.
C10_TruncationComplete ==
    (proc = "up" /\ handled_min > 0) =>
        \A i \in 1..Len(jfiles) :
            (jfiles[i].id # writer.file_path /\ jfiles[i].blobs # <<>>)
                => \E j \in 1..Len(jfiles[i].blobs) :
                      jfiles[i].blobs[j].epoch > handled_min - 1

\* The mutations known under epoch e: persisted in some run or in the journal.
KnownAt(e) ==
    {[id |-> plog[i].id, mutation |-> plog[i].mutation] :
        i \in {j \in 1..Len(plog) : plog[j].epoch = e}}
    \cup {[id |-> DiskBlobs[i].id, mutation |-> DiskBlobs[i].mutation] :
            i \in {j \in 1..Len(DiskBlobs) : DiskBlobs[j].epoch = e}}

\* The machine state after the mutations of epochs 1..S in epoch order.
RECURSIVE StateAt(_)
StateAt(S) ==
    IF S = 0 THEN DefaultMachine
    ELSE apply_mutation(StateAt(S - 1), (CHOOSE k \in KnownAt(S) : TRUE).mutation)

\* make_snapshot has written and fsynced a snapshot in this step.
SnapshotWritten == spc = "snapshot" /\ spc' = "apply" /\ proc' = "up"

\* C11: a snapshot written with epoch S holds exactly the state after the
\* mutations of epochs 1..S in epoch order, and S is the snapshot actor's
\* applied epoch when it is written.
C11_SnapshotContent ==
    [][SnapshotWritten =>
          /\ snapfile'.epoch = sepoch
          /\ snapfile'.map = smachine
          /\ \A e \in 1..sepoch : Cardinality(KnownAt(e)) = 1
          /\ smachine = StateAt(sepoch)]_vars

\* C12: startup never adopts a snapshot file that holds only a part of the
\* records of the snapshot that was being written.
C12_SnapshotAtomic ==
    [][(proc = "down" /\ proc' = "up" /\ snapfile.exists) => snapfile.whole]_vars

\* A journal file ends inside a record.
CorruptTail == \E i \in 1..Len(jfiles) : jfiles[i].tail > 0

\* C13: while a journal file ends inside a record, recovery does not
\* complete: no writer is produced, persisted_epoch is not published, no RPC
\* is served, and the reader has gone past no file with an unfinished record.
C13_CorruptTailFatal ==
    (proc = "up" /\ CorruptTail) =>
        /\ jpc = "restore"
        /\ writer = NoWriter
        /\ external_epoch = 0
        /\ recovered = NoEpoch
        /\ ~RpcReady
        /\ \A i \in 1..Len(reader.previous_files) :
              FileOf(reader.previous_files[i].path).tail = 0

\* Startup has failed on a journal that ends inside a record, after blobs
\* before the unfinished record were read.
C13_Witness ==
    /\ proc = "dead"
    /\ CorruptTail
    /\ ~(snapfile.exists /\ ~snapfile.readable)
    /\ DiskBlobs # <<>>

\* The queries of this run that are not answered yet.
CurrentQueries ==
    gets \cup {machine_chan[i] : i \in {j \in 1..Len(machine_chan) :
                                          machine_chan[j].type = "Query"}}
         \cup query_queue

\* C14: no request is taken before recovery has stored last_epoch into the
\* atomic, and the min_epoch of every Get of a run is at least the last_epoch
\* its recovery stored.
C14_NoStaleZero ==
    proc = "up" =>
        /\ recovered = NoEpoch => (CurrentQueries = {} /\ request_chan = <<>>)
        /\ recovered # NoEpoch =>
              \A q \in CurrentQueries : q.min_epoch >= recovered[1]

\* A Get has read a min_epoch above 0 that recovery stored, while the machine
\* actor has not yet replayed up to it.
C14_Witness ==
    /\ recovered # NoEpoch
    /\ \E q \in gets : /\ q.min_epoch > 0
                        /\ q.min_epoch = recovered[1]
                        /\ epoch < q.min_epoch

\* C15: within a run, a query is never answered from a machine state whose
\* applied epoch is below that of a state an earlier answer was computed from.
C15_MonotoneAnswers ==
    [][\A a \in answers' \ answers :
          \A b \in answers : b.run = a.run => b.epoch <= a.epoch]_vars

\* Two queries of one run were answered, the later one from a newer state.
C15_Witness ==
    \E a, b \in answers : a.run = b.run /\ a.id # b.id /\ a.epoch < b.epoch

\* C16 as stated: in every state of a run the applied epoch of the machine
\* actor and that of the snapshot actor equal the number of Proposals the
\* actor has received in the run, also when the run loaded a snapshot.
C16_EpochIsCount ==
    proc = "up" => (epoch = received /\ sepoch = sreceived)

\* C16: in every state of a run the applied epoch of the machine actor and
\* that of the snapshot actor equal the epoch of the snapshot loaded at
\* startup plus the number of Proposals the actor has received in the run,
\* less the one Proposal on which its epoch assertion has failed, if any.
C16_EpochIsLoadedPlusCount ==
    proc = "up" =>
        /\ epoch = snapshot_epoch + received - (IF stopped("machine") THEN 1 ELSE 0)
        /\ sepoch = snapshot_epoch + sreceived - (IF stopped("snapshot") THEN 1 ELSE 0)

\* A run that loaded a snapshot with an epoch above 0 and in which both
\* actors have received Proposals.
C16_Witness ==
    proc = "up" /\ snapshot_epoch > 0 /\ received > 0 /\ sreceived > 0

\* The request is fsynced, its caller is notified and both the machine actor
\* and the snapshot actor have applied it: in a run from an empty directory
\* the i-th persistent mutation is applied once the applied epoch is i.
Settled(id) ==
    /\ id \in FsyncedIds
    /\ id \in AckedIds
    /\ \E i \in 1..Len(plog) :
          plog[i].id = id /\ epoch >= i /\ sepoch >= i

C18_NoEpochSkipped ==
    [][(proc = "up" /\ jpc # "restore" /\ proc' = "up")
          => external_epoch' <= external_epoch + 1]_vars

\* C18: within a run the shared atomic never decreases, and the store after
\* a batch advances it by the size of the whole batch in one step, to the
\* epoch of the last mutation of the batch: it is never at E2 or above before
\* it is at E1 or above, and it is in between only for different batches.
C18_BatchAdvance ==
    [][(proc = "up" /\ proc' = "up") =>
          /\ external_epoch' >= external_epoch
          /\ (jpc = "publish" /\ jpc' = "notify") =>
                /\ external_epoch' = external_epoch + Len(batch)
                /\ \A i \in 1..Len(batch) : batch[i].epoch = external_epoch + i]_vars

\* A batch of two mutations has just been published: the atomic went from 0
\* to 2.
C18_Witness ==
    /\ proc = "up" /\ jpc = "notify"
    /\ recovered = Some(0)
    /\ Len(batch) = 2 /\ external_epoch = 2

\* C19: every snapshot is written at exactly the epoch of the last snapshot
\* (or of the snapshot loaded at startup) plus snapshot_interval.
C19_ExactCadence ==
    [][SnapshotWritten => sepoch = last_snapshot_epoch + snapshot_interval]_vars

\* C20 as stated: once an actor has failed, no other actor acknowledges a
\* write, answers a query or writes a snapshot.
C20_NothingAfterFailure ==
    [][(proc = "up" /\ failed # {} /\ proc' = "up") =>
          /\ acked' = acked
          /\ answers' = answers
          /\ snap_done' = snap_done]_vars

\* C20: once an actor has failed, the exit of the process is possible in
\* every state, the failure is never cleared other than by the exit, and the
\* failed actor takes no further step; until the exit the other actors go on.
C20_FailureEndsRun ==
    [][(proc = "up" /\ failed # {}) =>
          /\ ENABLED Die
          /\ \/ proc' # "up"
             \/ /\ failed \subseteq failed'
                /\ stopped("journal") =>
                      UNCHANGED <<journalVars, jfiles, acked, plog, disposed, remove_failed>>
                /\ stopped("machine") =>
                      UNCHANGED <<machineVars, answers>>
                /\ stopped("snapshot") =>
                      UNCHANGED <<snapVars, snapfile, snap_done>>]_vars

\* The snapshot actor has failed, the process has not yet exited and the
\* machine actor is about to answer a query.
C20_Witness ==
    /\ proc = "up"
    /\ "snapshot" \in failed
    /\ ~stopped("machine")
    /\ machine_chan # <<>>
    /\ Head(machine_chan).type = "Query"
    /\ answers_now(epoch, Head(machine_chan).min_epoch)

\* serve(): a batch has been taken and appended.
BatchTaken == jpc = "serve" /\ jpc' = "persist" /\ proc' = "up"

\* serve(): persist() has returned.
BatchPersisted == jpc = "persist" /\ jpc' = "publish" /\ proc' = "up"

\* The file the writer appends to, before and after a step.
CurrentBefore == FileOf(writer.file_path)

CurrentAfter ==
    jfiles'[CHOOSE i \in 1..Len(jfiles') : jfiles'[i].id = writer.file_path]

\* C21: a batch holds between 1 and batch_size requests, all that wait up to
\* batch_size, taken from the head of the request channel in order; the
\* i-th (from 0) gets epoch persisted_epoch + 1 + i; the whole batch is in
\* the journal file before persist(), which is called once for the batch and
\* covers all of it.
C21_BatchConstruction ==
    [][/\ BatchTaken =>
             LET n == Len(batch') IN
             /\ n >= 1 /\ n <= batch_size
             /\ n = Min(Len(request_chan), batch_size)
             /\ \A i \in 1..n :
                   /\ batch'[i].id = request_chan[i].id
                   /\ batch'[i].mutation = request_chan[i].mutation
                   /\ batch'[i].epoch = persisted_epoch + 1 + (i - 1)
             /\ request_chan' = SubSeq(request_chan, n + 1, Len(request_chan))
             /\ CurrentAfter.blobs = CurrentBefore.blobs \o batch'
             /\ CurrentAfter.synced = CurrentBefore.synced
       /\ jpc = "persist" =>
             LET blobs == CurrentBefore.blobs
                 n == Len(batch)
             IN  /\ n >= 1
                 /\ SubSeq(blobs, Len(blobs) - n + 1, Len(blobs)) = batch
                 /\ CurrentBefore.synced <= Len(blobs) - n
       /\ BatchPersisted =>
             /\ batch' = batch
             /\ CurrentAfter.blobs = CurrentBefore.blobs
             /\ CurrentAfter.synced = Len(CurrentBefore.blobs)
       /\ (jpc = "publish" /\ proc' = "up") => jpc' \in {"publish", "notify"}]_vars

\* A batch of batch_size requests has been taken while a third request
\* stays in the channel, after an earlier batch.
C21_Witness ==
    /\ jpc = "persist"
    /\ Len(batch) = batch_size
    /\ request_chan # <<>>

\* The Proposals in the machine actor's channel.
ProposalsIn(chan) == SelectSeq(chan, LAMBDA msg : msg.type = "Proposal")

\* C22: when append_blob or persist() has failed for a batch, the journal
\* actor has stopped, and from the failure on no caller of the batch is
\* notified, persisted_epoch and the shared atomic keep the value they had
\* before the batch, and no Proposal of the batch is sent.
C22_FailedBatch ==
    [][(proc' = "up" /\ "journal_io" \in failed') =>
          /\ persisted_epoch' = persisted_epoch
          /\ external_epoch' = external_epoch
          /\ external_epoch' = persisted_epoch'
          /\ acked' = acked
          /\ Len(ProposalsIn(machine_chan')) <= Len(ProposalsIn(machine_chan))
          /\ Len(snapshot_chan') <= Len(snapshot_chan)
          /\ sent' = 0
          /\ batch' # <<>>
          /\ \A i \in 1..Len(batch') :
                /\ batch'[i].id \notin {a.id : a \in acked'}
                /\ batch'[i].epoch = persisted_epoch' + i
          /\ "journal_io" \in failed => UNCHANGED <<journalVars, jfiles>>]_vars

\* persist() has failed for a batch of two and the process has not yet
\* exited; an earlier Set of the run is acknowledged.
C22_Witness ==
    /\ proc = "up"
    /\ "journal_io" \in failed
    /\ jpc = "persist"
    /\ persisted_epoch > 0

\* The machine actor and the snapshot actor have applied the request: in a
\* run from an empty directory the i-th persistent mutation is applied once
\* the applied epoch is i.
AppliedByBoth(id) ==
    \E i \in 1..Len(plog) :
        plog[i].id = id /\ plog[i].fsynced /\ epoch >= i /\ sepoch >= i

\* serve(): the journal actor has gone through its notify loop.
NotifyStep == jpc = "notify" /\ <<jpc, acked, failed>>' # <<jpc, acked, failed>>

\* C23: a Set whose caller has dropped the notify receiver is journaled with
\* the batch, counted in persisted_epoch and proposed to both actors like any
\* other; the notify loop never fails, notifies the other callers of the
\* batch, and the journal actor goes on; every request is in the end applied
\* by both actors and, unless dropped, acknowledged.
C23_DroppedNotify ==
    /\ [][/\ BatchPersisted =>
                 \A i \in 1..Len(batch) : batch[i].id \in {plog'[j].id : j \in 1..Len(plog')}
          /\ (jpc = "publish" /\ jpc' = "notify") =>
                 persisted_epoch' = persisted_epoch + Len(batch)
          /\ NotifyStep =>
                 /\ jpc' = "propose"
                 /\ failed' = failed
                 /\ {a.id : a \in acked'} =
                       {a.id : a \in acked}
                         \cup ({batch[i].id : i \in 1..Len(batch)} \ dropped)
          /\ (jpc = "propose" /\ <<jpc, sent>>' # <<jpc, sent>>) =>
                 /\ machine_chan' = Append(machine_chan,
                                           Proposal(batch[sent + 1].mutation,
                                                    batch[sent + 1].epoch))
                 /\ Len(snapshot_chan') = Len(snapshot_chan) + 1]_vars
    /\ \A id \in 1..MaxCancelSets :
          (next_id > id) ~> (AppliedByBoth(id) /\ (id \in AckedIds \/ id \in dropped))

\* A batch of two Sets: the caller of the first has dropped its receiver and
\* was not notified, the second was, and both are applied by both actors.
C23_Witness ==
    /\ 1 \in dropped /\ 1 \notin AckedIds /\ 2 \in AckedIds
    /\ \E a \in acked : a.id = 2 /\ a.epoch = 2
    /\ recovered = Some(0)
    /\ AppliedByBoth(1) /\ AppliedByBoth(2)
    /\ Len(plog) = 2 /\ plog[1].id = 1

\* The queries the machine actor holds: in its channel or in its heap.
HeldQueries ==
    {machine_chan[i] : i \in {j \in 1..Len(machine_chan) :
                                 machine_chan[j].type = "Query"}}
      \cup query_queue

\* C24: a send of an answer to a dropped reply receiver changes nothing but
\* the query's removal: the machine actor does not fail, its machine and
\* epoch are what the message alone makes them, the other queries released
\* with it are answered; every other query the actor holds is answered in
\* the end and every Set is applied.
C24_DroppedReply ==
    /\ [][(undelivered' # undelivered) =>
             LET msg == Head(machine_chan)
                 gone == undelivered' \ undelivered
             IN  /\ failed' = failed /\ proc' = proc
                 /\ machine_chan' = Tail(machine_chan)
                 /\ \A a \in gone :
                       a.id \in qdropped /\ a.id \notin {b.id : b \in answers'}
                 /\ IF msg.type = "Query"
                    THEN /\ <<machine, epoch, query_queue, answers>>' =
                              <<machine, epoch, query_queue, answers>>
                         /\ {a.id : a \in gone} = {msg.id}
                    ELSE /\ machine' = apply_mutation(machine, msg.mutation)
                         /\ epoch' = epoch + 1
                         /\ query_queue' = {q \in query_queue : q.min_epoch > epoch + 1}
                         /\ \A q \in query_queue \ query_queue' :
                               \/ q.id \in qdropped /\ q.id \in {a.id : a \in gone}
                               \/ q.id \notin qdropped /\ q.id \in {a.id : a \in answers'}]_vars
    /\ \A g \in 1..MaxCancelGets :
          (g \in {q.id : q \in HeldQueries})
             ~> (g \in {a.id : a \in answers} \/ g \in {a.id : a \in undelivered})
    /\ \A id \in 1..MaxReplySets : (next_id > id) ~> AppliedByBoth(id)

\* The answer to a deferred query went to a dropped receiver when the
\* Proposal it waited for was applied, and another query was answered from
\* that state.
C24_Witness ==
    \E u \in undelivered :
        /\ u.deferred
        /\ \E a \in answers : a.id # u.id /\ a.epoch >= u.epoch
        /\ failed = {}

\* The blob restore() has before it: read, whole and decoded.
NextBlob ==
    LET r == read_len(reader).reader
    IN  FileOf(Head(r.file_paths)).blobs[r.pos + 1]

AtBlob ==
    /\ proc = "up" /\ jpc = "restore" /\ ~stopped("journal")
    /\ read_len(reader).status = "blob"
    /\ read_exact_ok(read_len(reader).reader)
    /\ decode_blob_ok(NextBlob)

\* The journal actor takes its step on that blob.
RestoreStep == AtBlob /\ <<last_epoch, failed>>' # <<last_epoch, failed>>

\* C25: recovery fails on a blob after the first whose epoch is not the
\* previous epoch + 1 and on a first blob whose epoch is above
\* snapshot_epoch + 1: no writer is made and the process never serves; a
\* first blob with any epoch up to snapshot_epoch + 1 is accepted.
C25_EpochValidation ==
    /\ [][RestoreStep =>
             LET e == NextBlob.epoch
                 bad == IF last_epoch = NoEpoch
                        THEN e > snapshot_epoch + 1
                        ELSE e # last_epoch[1] + 1
             IN  IF bad
                 THEN /\ "restore" \in failed'
                      /\ <<jpc, writer, jfiles, last_epoch, chanVars>>' =
                           <<jpc, writer, jfiles, last_epoch, chanVars>>
                 ELSE /\ failed' = failed
                      /\ last_epoch' = Some(e)]_vars
    /\ [][("restore" \in failed \/ proc = "dead") =>
             /\ jpc' = "restore" /\ writer' = NoWriter /\ external_epoch' = 0
             /\ proc' # "down"
             /\ "restore" \in failed' \/ proc' = "dead"]_vars

\* The recovery has accepted a first blob below the snapshot's epoch and
\* the process is dead of the gap after it.
C25_Witness ==
    /\ proc = "dead"
    /\ snapshot_epoch = 0 /\ snapfile.epoch = 2
    /\ DiskBlobs # <<>> /\ DiskBlobs[1].epoch = 1
    /\ Len(DiskBlobs) = 3 /\ DiskBlobs[2].epoch = 2 /\ DiskBlobs[3].epoch = 2

\* The epochs of the blobs the recovery of this run has read: of those on
\* the disk and of those in the files deleted since.
JournalEpochs ==
    {b.epoch : b \in Range(DiskBlobs)} \cup {d.epoch : d \in disposed}

\* The recovery is done and both actors have taken all it sent them.
ReplayDrained ==
    /\ proc = "up" /\ jpc = "serve" /\ failed = {}
    /\ machine_chan = <<>> /\ snapshot_chan = <<>>

\* C26: recovery sends a Proposal to the machine actor and to the snapshot
\* actor for each blob whose epoch is above snapshot_epoch, in the order of
\* the journal, and nothing for the other blobs; once both have taken them
\* all, each has taken exactly as many as there are such blobs, and the
\* epochs of both are last_epoch if the journal holds a blob of an epoch of
\* at least snapshot_epoch.
C26_Replay ==
    /\ [][(RestoreStep /\ failed' = failed) =>
             IF NextBlob.epoch > snapshot_epoch
             THEN /\ machine_chan' = Append(machine_chan,
                                            Proposal(NextBlob.mutation, NextBlob.epoch))
                  /\ snapshot_chan' = Append(snapshot_chan,
                                             [mutation |-> NextBlob.mutation,
                                              epoch |-> NextBlob.epoch])
             ELSE chanVars' = chanVars]_vars
    /\ [](ReplayDrained =>
             LET past == {e \in JournalEpochs : e > snapshot_epoch} IN
             /\ received = Cardinality(past)
             /\ sreceived = Cardinality(past)
             /\ (\E e \in JournalEpochs : e >= snapshot_epoch) =>
                    /\ epoch = recovered[1]
                    /\ sepoch = recovered[1]
                    /\ recovered = last_epoch)

\* A journal of epochs 1, 2, 3 under a snapshot of epoch 1: the two blobs
\* past the snapshot were replayed and both actors are at epoch 3.
C26_Witness ==
    /\ ReplayDrained
    /\ snapshot_epoch = 1
    /\ JournalEpochs = {1, 2, 3}
    /\ received = 2 /\ sreceived = 2
    /\ epoch = 3 /\ sepoch = 3

\* The journal actor handles a watermark and calls dispose_oldest_blobs.
DisposeStep ==
    /\ proc = "up" /\ proc' = "up" /\ failed' = failed
    /\ min_epoch_chan # <<>> /\ min_epoch_chan' = Tail(min_epoch_chan)
    /\ get_blob_count(writer) > desired_len(persisted_epoch, Head(min_epoch_chan))

\* C27: dispose_oldest_blobs(n) of the writer deletes the longest prefix of
\* the closed files whose blob counts add up to at most n, and nothing
\* else: the current file and the other closed files are left as they
\* are, and get_blob_count() is less by the blobs of the deleted files.
C27_LongestPrefix ==
    [][DisposeStep =>
         LET n == get_blob_count(writer)
                    - desired_len(persisted_epoch, Head(min_epoch_chan))
             k == base_dispose(writer.previous_files, n)
             gone == {writer.previous_files[i].path : i \in 1..k}
         IN  /\ jfiles' = SelectSeq(jfiles, LAMBDA f : f.id \notin gone)
             /\ writer.file_path \notin gone
             /\ get_blob_count(writer') =
                   get_blob_count(writer)
                     - SeqSum([i \in 1..k |-> writer.previous_files[i].blob_count])]_vars

\* C28: the assertion of handle_new_min_epoch never fails: every watermark
\* in the channel of a serving journal actor, and so the one it handles, is
\* at most persisted_epoch + 1, whatever the runs before and whether the
\* snapshot was taken from replayed or from new Proposals.
C28_WatermarkInRange ==
    /\ "min_epoch" \notin failed
    /\ panicked # "min_epoch"
    /\ (proc = "up" /\ jpc # "restore") =>
          \A i \in 1..Len(min_epoch_chan) : min_epoch_chan[i] <= persisted_epoch + 1

\* In a second run the snapshot actor has taken a snapshot from replayed
\* Proposals alone, and the journal actor has handled its watermark, which
\* was persisted_epoch + 1.
C28_Witness ==
    /\ proc = "up" /\ runs = 2 /\ jpc = "serve"
    /\ recovered = Some(persisted_epoch)
    /\ snapshot_epoch < persisted_epoch
    /\ sreceived = persisted_epoch - snapshot_epoch
    /\ handled_min = persisted_epoch + 1
    /\ snapfile.epoch = persisted_epoch

\* The snapshot file make_snapshot leaves once persist() has returned.
Persisted(map, e) ==
    [exists |-> TRUE, epoch |-> e, map |-> map, readable |-> TRUE, whole |-> TRUE]

\* C29: a watermark is sent only by a make_snapshot that has written and
\* persisted its snapshot, and is that snapshot's epoch + 1; a make_snapshot
\* that fails sends none, leaves last_snapshot_epoch as it is and ends the
\* actor; so every watermark M in the channel has a whole persisted
\* snapshot of epoch M - 1, or a later one, behind it.
C29_WatermarkBacked ==
    /\ [][(proc' = "up" /\ Len(min_epoch_chan') > Len(min_epoch_chan)) =>
             /\ spc = "snapshot" /\ failed' = failed
             /\ min_epoch_chan' = Append(min_epoch_chan, sepoch + 1)
             /\ snapfile' = Persisted(smachine, sepoch)
             /\ last_snapshot_epoch' = sepoch]_vars
    /\ [][("snapshot_io" \in failed' /\ "snapshot_io" \notin failed) =>
             /\ spc = "snapshot"
             /\ min_epoch_chan' = min_epoch_chan
             /\ last_snapshot_epoch' = last_snapshot_epoch]_vars
    /\ [][("snapshot_io" \in failed /\ proc' = "up") =>
             /\ snapVars' = snapVars
             /\ Len(min_epoch_chan') <= Len(min_epoch_chan)]_vars
    /\ [](proc = "up" =>
             \A i \in 1..Len(min_epoch_chan) :
                /\ min_epoch_chan[i] - 1 \in snap_done
                /\ snapfile.exists /\ snapfile.readable /\ snapfile.whole
                /\ snapfile.epoch >= min_epoch_chan[i] - 1)

\* The second make_snapshot of a run has failed: the watermark of the first
\* is still in the channel, none was added, and last_snapshot_epoch is the
\* epoch of the first.
C29_Witness ==
    /\ proc = "up" /\ "snapshot_io" \in failed
    /\ min_epoch_chan = <<2>>
    /\ snapfile.epoch = 1 /\ snapfile.whole
    /\ sepoch = 2 /\ last_snapshot_epoch = 1

\* The snapshot actor has applied a batch and made its test.
BatchApplied ==
    /\ proc = "up" /\ proc' = "up" /\ failed' = failed
    /\ sreceived' > sreceived

\* make_snapshot has returned Ok.
SnapshotMade == proc = "up" /\ spc = "snapshot" /\ spc' = "apply" /\ proc' = "up"

\* C30: with a snapshot_interval of long_snapshot_interval, a snapshot is
\* made only when epoch - last_snapshot_epoch has reached the interval,
\* which is tested after every batch; at the start of every iteration of
\* serve() the difference is at least 0 and below the interval; at startup
\* last_snapshot_epoch is the epoch of the loaded snapshot, so no snapshot
\* is made before that many Proposals were applied.
C30_SnapshotTrigger ==
    /\ [][SnapshotMade =>
             /\ sepoch - last_snapshot_epoch >= long_snapshot_interval
             /\ sreceived >= long_snapshot_interval
             /\ last_snapshot_epoch' = sepoch /\ sepoch' = sepoch]_vars
    /\ [][BatchApplied =>
             (spc' = "snapshot") <=>
                (sepoch' - last_snapshot_epoch >= long_snapshot_interval)]_vars
    /\ [][(proc = "down" /\ proc' = "up") =>
             /\ last_snapshot_epoch' = IF snapfile.exists THEN snapfile.epoch ELSE 0
             /\ sepoch' = last_snapshot_epoch'
             /\ spc' = "apply"]_vars
    /\ []((proc = "up" /\ spc = "apply" /\ ~stopped("snapshot")) =>
             /\ 0 <= sepoch - last_snapshot_epoch
             /\ sepoch - last_snapshot_epoch < long_snapshot_interval)

\* A run that loaded a snapshot of epoch 2: a batch of one Proposal has been
\* applied without a snapshot, the actor is at the start of its loop one
\* epoch past last_snapshot_epoch.
C30_Witness ==
    /\ proc = "up" /\ spc = "apply" /\ ~stopped("snapshot")
    /\ runs = 2 /\ snapshot_epoch = 2
    /\ last_snapshot_epoch = 2 /\ sepoch = 3 /\ sreceived = 1

\* The bytes of the blobs of a journal file: a length prefix and the blob.
FileBytes(f) == SeqSum([i \in 1..Len(f.blobs) |-> 4 + f.blobs[i].len])

\* The journal actor appends a batch; persist() returns Ok.
AppendStep == proc = "up" /\ jpc = "serve" /\ jpc' = "persist" /\ proc' = "up"

PersistStep == proc = "up" /\ jpc = "persist" /\ jpc' = "publish" /\ proc' = "up"

\* C31: the current journal file changes only in persist(), after the
\* fsync, and exactly when the bytes appended to it (4 + length per blob)
\* have reached the soft limit; an append leaves the file current, so a
\* batch lies in one file even across the limit; at a limit of 0 any
\* persist() rotates; after a rotation the closed file is the newest
\* previous file with its blob count and the new file is empty.
C31_Rotation ==
    /\ [][(proc = "up" /\ proc' = "up" /\ jpc # "restore"
            /\ writer'.file_path # writer.file_path) => PersistStep]_vars
    /\ [][AppendStep =>
             /\ writer'.file_path = writer.file_path
             /\ writer'.previous_files = writer.previous_files
             /\ Len(jfiles') = Len(jfiles)
             /\ \E f \in Range(jfiles') :
                   /\ f.id = writer.file_path
                   /\ \A i \in 1..Len(batch') : batch'[i] \in Range(f.blobs)]_vars
    /\ [][PersistStep =>
             LET f == FileOf(writer.file_path) IN
             IF FileBytes(f) >= file_size_soft_limit
             THEN /\ writer'.file_path # writer.file_path
                  /\ writer'.current_file_size = 0
                  /\ writer'.current_file_blob_count = 0
                  /\ writer'.previous_files =
                        Append(writer.previous_files,
                               [path |-> f.id, blob_count |-> Len(f.blobs)])
                  /\ jfiles'[Len(jfiles')] = NewFile(writer'.file_path)
                  /\ \E g \in Range(jfiles') :
                        g.id = f.id /\ g.blobs = f.blobs /\ g.synced = Len(f.blobs)
             ELSE /\ writer' = writer
                  /\ Len(jfiles') = Len(jfiles)]_vars
    /\ [](jpc = "persist" => rotates(writer, 0))

\* A batch of two blobs was appended to a file that the first of them had
\* already brought to the limit, and persist() has closed the file with
\* both in it.
C31_Witness ==
    /\ proc = "up" /\ jpc = "publish" /\ Len(batch) = 2
    /\ \E i \in 1..Len(writer.previous_files) :
          /\ i = Len(writer.previous_files)
          /\ writer.previous_files[i].blob_count = 2
          /\ LET f == FileOf(writer.previous_files[i].path) IN
             /\ f.blobs = batch
             /\ 4 + f.blobs[1].len >= file_size_soft_limit
    /\ writer.current_file_size = 0

\* C32: every blob the journal actor has written is accepted by
\* decode_blob and decodes to the mutation and the epoch it was written
\* from, whatever the mutation, the one with an empty payload included, so
\* that no recovery fails on a blob whose Set was acknowledged.
C32_RoundTrip ==
    \A i \in 1..Len(DiskBlobs) :
       LET blob == DiskBlobs[i] IN
       /\ blob = write_mutation([id |-> blob.id, mutation |-> blob.mutation], blob.epoch)
       /\ decode_blob_ok(blob)
       /\ decode(blob.payload) = blob.mutation

\* C33: whatever the order in which the entries of the map are written,
\* a whole snapshot reads back as the same mapping of keys to values, empty
\* keys and empty values included, under the epoch written in front of
\* it; the next start of the process has that machine and that epoch.
C33_SnapshotRoundTrip ==
    /\ [][SnapshotMade =>
             /\ \A order \in Orders(smachine) :
                   read_snapshot(snapshot_bytes(smachine, sepoch, order))
                     = [epoch |-> sepoch, map |-> smachine]
             /\ snapfile'.map = smachine /\ snapfile'.epoch = sepoch]_vars
    /\ [][(proc = "down" /\ proc' = "up" /\ snapfile.whole) =>
             /\ machine' = snapfile.map /\ epoch' = snapfile.epoch
             /\ smachine' = snapfile.map /\ sepoch' = snapfile.epoch]_vars

\* A second run has loaded a snapshot of two entries, one of them the empty
\* key with the empty value.
C33_Witness ==
    /\ proc = "up" /\ runs = 2
    /\ snapfile.whole /\ snapfile.epoch = 2
    /\ snapfile.map[<<>>] = Stored(<<>>) /\ snapfile.map[<<1>>] = Stored(<<7>>)
    /\ 2 \in snap_done /\ snapshot_epoch = 2 /\ received = 0
    /\ machine = snapfile.map /\ epoch = 2

\* C34: the machine actor's and the snapshot actor's machines are equal
\* whenever their epochs are, and each of them at epoch E is the state
\* after the mutations of epochs 1..E in epoch order.
C34_Converge ==
    proc = "up" =>
        /\ epoch = sepoch => machine = smachine
        /\ \A e \in 1..epoch : Cardinality(KnownAt(e)) = 1
        /\ machine = StateAt(epoch)
        /\ \A e \in 1..sepoch : Cardinality(KnownAt(e)) = 1
        /\ smachine = StateAt(sepoch)

\* The machine actor handles a Query, a Proposal with the next epoch.
QueryStep ==
    /\ proc = "up" /\ proc' = "up" /\ machine_chan # <<>>
    /\ Head(machine_chan).type = "Query"
    /\ machine_chan' = Tail(machine_chan)

ProposalStep ==
    /\ proc = "up" /\ proc' = "up" /\ machine_chan # <<>>
    /\ Head(machine_chan).type = "Proposal"
    /\ machine_chan' = Tail(machine_chan)
    /\ epoch' = epoch + 1

\* C35: a Query whose min_epoch is at most the current epoch is answered at
\* once and does not enter the heap, any other is pushed; after each
\* Proposal the heap holds no query with a min_epoch of at most the
\* current epoch: a held query with min_epoch m is answered in the step
\* that applies the Proposal of epoch m, from the state with that
\* mutation.
C35_PromptRelease ==
    /\ [][QueryStep =>
             LET q == Head(machine_chan) IN
             IF q.min_epoch <= epoch
             THEN /\ query_queue' = query_queue
                  /\ answers' = answers \cup {Answer(q, machine, epoch, FALSE)}
             ELSE /\ query_queue' = query_queue \cup {q}
                  /\ answers' = answers]_vars
    /\ [][ProposalStep =>
             \A q \in query_queue :
                IF q.min_epoch <= epoch + 1
                THEN /\ q \notin query_queue'
                     /\ Answer(q, apply_mutation(machine, Head(machine_chan).mutation),
                               epoch + 1, TRUE) \in answers'
                ELSE q \in query_queue' /\ q.id \notin {a.id : a \in answers'}]_vars
    /\ [](proc = "up" => \A q \in query_queue : q.min_epoch > epoch)

\* Two held queries were answered by the Proposal of their min_epoch, and
\* the heap is empty.
C35_Witness ==
    /\ proc = "up" /\ query_queue = {}
    /\ \E a, b \in answers :
          /\ a.id # b.id /\ a.deferred /\ b.deferred
          /\ a.run = runs /\ b.run = runs
          /\ a.epoch = a.min_epoch /\ b.epoch = b.min_epoch /\ a.epoch = epoch

\* C36: once recovery has completed, the machine actor's epoch and the
\* snapshot actor's epoch are at most persisted_epoch, the snapshot on disk
\* has an epoch of at most persisted_epoch, and every epoch an actor has
\* applied is the epoch of a mutation that has become persistent.
C36_NothingAhead ==
    (proc = "up" /\ jpc # "restore") =>
        /\ epoch <= persisted_epoch
        /\ sepoch <= persisted_epoch
        /\ snapfile.exists => snapfile.epoch <= persisted_epoch
        /\ \A e \in 1..epoch : \E i \in 1..Len(plog) : plog[i].epoch = e
        /\ \A e \in 1..sepoch : \E i \in 1..Len(plog) : plog[i].epoch = e

\* restore() has reached the end of the journal and made the writer.
HandOver == proc = "up" /\ jpc = "restore" /\ jpc' = "serve" /\ proc' = "up"

\* The journal actor handles a watermark and stays in its loop.
WatermarkStep ==
    /\ proc = "up" /\ jpc = "serve" /\ min_epoch_chan # <<>>
    /\ min_epoch_chan' = Tail(min_epoch_chan)
    /\ failed' = failed /\ proc' = "up"

\* C37: the writer's blob count is the number of blobs on disk. At the
\* hand-over from the reader it is the number of blobs read from all
\* journal files; between two batches it is the number of blobs in the
\* journal files that exist, whose epochs are consecutive and end at
\* persisted_epoch; so the number handle_new_min_epoch computes for a
\* watermark M is the number of journal blobs with an epoch below M.
C37_BlobCount ==
    /\ [][HandOver =>
             /\ get_blob_count(writer') = Len(DiskBlobs)
             /\ get_blob_count(writer') = SeqSum([i \in 1..Len(jfiles) |->
                                                   Len(jfiles[i].blobs)])]_vars
    /\ []((proc = "up" /\ jpc = "serve" /\ ~stopped("journal")) =>
             /\ get_blob_count(writer) = Len(DiskBlobs)
             /\ \A i \in 1..Len(DiskBlobs) :
                   DiskBlobs[i].epoch = persisted_epoch - Len(DiskBlobs) + i)
    /\ [][WatermarkStep =>
             get_blob_count(writer)
                 - desired_len(persisted_epoch, Head(min_epoch_chan))
             = Cardinality({i \in 1..Len(DiskBlobs) :
                              DiskBlobs[i].epoch < Head(min_epoch_chan)})]_vars

\* The watermark 2 has just been handled in a later run: the journal holds
\* the blob of epoch 1 in a file that was read back and the blob of epoch 2
\* in the current file, and one blob was below the watermark.
C37_Witness ==
    /\ proc = "up" /\ jpc = "serve" /\ ~stopped("journal")
    /\ handled_min = 2 /\ recovered = Some(1)
    /\ persisted_epoch = 2
    /\ writer.current_file_blob_count = 1
    /\ get_blob_count(writer) = 2
    /\ Len(DiskBlobs) = 2

\* The ids of the requests, blobs or log entries of a sequence.
Ids(s) == {s[i].id : i \in 1..Len(s)}

\* No request occurs twice in a sequence.
Distinct(s) == \A i, j \in 1..Len(s) : s[i].id = s[j].id => i = j

\* The journal actor goes through its notify loop.
NotifiedStep == proc = "up" /\ proc' = "up" /\ jpc = "notify" /\ jpc' = "propose"

\* The journal actor sends the next Proposal of its batch.
ProposeStep ==
    /\ proc = "up" /\ proc' = "up" /\ jpc = "propose"
    /\ <<jpc, sent>>' # <<jpc, sent>>

\* The Proposals the journal actor has sent in this run: those of the
\* replay and those of the batches, less the rest of the batch in hand.
ProposalsSent ==
    (IF recovered[1] > snapshot_epoch THEN recovered[1] - snapshot_epoch ELSE 0)
    + (persisted_epoch - recovered[1])
    - (IF jpc \in {"notify", "propose"} THEN Len(batch) - sent ELSE 0)

\* C38: a request taken from the request channel is in one batch, gets one
\* epoch, is written to the journal once, is notified once and is proposed
\* once to the machine actor and once to the snapshot actor; taking a batch
\* leaves the watermarks in their channel and handling a watermark leaves
\* the requests in theirs, so none is lost or handled twice; the epochs
\* follow the order in which the requests left the channel.
C38_ExactlyOnce ==
    /\ [][BatchTaken =>
             /\ \A i \in 1..Len(batch') :
                   /\ batch'[i].id = request_chan[i].id
                   /\ batch'[i].epoch = persisted_epoch + i
                   /\ batch'[i].id \notin Ids(DiskBlobs) \cup Ids(plog) \cup AckedIds
             /\ request_chan = [i \in 1..Len(batch') |->
                                  [id |-> batch'[i].id, mutation |-> batch'[i].mutation]]
                               \o request_chan'
             /\ min_epoch_chan' = min_epoch_chan]_vars
    /\ [][WatermarkStep =>
             /\ handled_min' = Head(min_epoch_chan)
             /\ request_chan' = request_chan
             /\ batch' = batch]_vars
    /\ [][NotifiedStep =>
             /\ AckedIds \cap Ids(batch) = {}
             /\ {a.id : a \in acked'} = AckedIds \cup (Ids(batch) \ dropped)]_vars
    /\ [][ProposeStep =>
             LET p == batch[sent + 1] IN
             /\ machine_chan' = Append(machine_chan, Proposal(p.mutation, p.epoch))
             /\ snapshot_chan' = Append(snapshot_chan,
                                        [mutation |-> p.mutation, epoch |-> p.epoch])
             /\ sent' = IF sent + 1 = Len(batch) THEN 0 ELSE sent + 1]_vars
    /\ [](proc = "up" =>
             /\ Distinct(DiskBlobs) /\ Distinct(plog)
             /\ Distinct(request_chan \o batch)
             /\ Ids(request_chan) \cap (Ids(DiskBlobs) \cup Ids(plog)) = {})
    /\ []((proc = "up" /\ jpc # "restore") =>
             /\ received + Len(ProposalsIn(machine_chan)) = ProposalsSent
             /\ sreceived + Len(snapshot_chan) = ProposalsSent)

\* A request and a watermark wait at the same time for the journal actor,
\* which has notified and proposed a batch of this run.
C38_Witness ==
    /\ proc = "up" /\ jpc = "serve" /\ ~stopped("journal")
    /\ request_chan # <<>> /\ min_epoch_chan # <<>>
    /\ persisted_epoch = 1 /\ recovered = Some(0)
    /\ \E a \in acked : a.epoch = 1
    /\ received + Len(ProposalsIn(machine_chan)) = 1

\* The journal actor takes a watermark from its channel.
WatermarkTaken ==
    /\ proc = "up" /\ proc' = "up" /\ jpc = "serve" /\ min_epoch_chan # <<>>
    /\ min_epoch_chan' = Tail(min_epoch_chan)

\* The number of files the loop of dispose_oldest_blobs goes through for
\* the watermark at the head of the channel when no removal fails.
ToDispose ==
    LET desired == desired_len(persisted_epoch, Head(min_epoch_chan))
        actual == get_blob_count(writer)
    IN  IF actual > desired THEN dispose_oldest_blobs(writer, actual - desired) ELSE 0

\* C39: handling a watermark only truncates the journal: persisted_epoch,
\* the shared atomic, the batch, the acknowledgements and the channels of
\* requests and Proposals stay as they are and the journal actor stays in
\* its loop without a failure; the files it unregisters are the oldest and
\* are absent afterwards, whether it removed them or found them absent; a
\* file whose removal fails stays on disk and registered with its blob
\* count, with every file after it.
C39_PureTruncation ==
    /\ [][WatermarkTaken =>
             LET r == Len(writer.previous_files) - Len(writer'.previous_files)
                 gone == {writer.previous_files[i].path : i \in 1..r}
             IN  /\ <<persisted_epoch, external_epoch, batch, sent, acked, plog,
                       request_chan, machine_chan, snapshot_chan>>'
                      = <<persisted_epoch, external_epoch, batch, sent, acked, plog,
                          request_chan, machine_chan, snapshot_chan>>
                 /\ jpc' = "serve" /\ failed' = failed
                 /\ r >= 0 /\ r <= ToDispose
                 /\ writer' = [writer EXCEPT
                                 !.previous_files = SubSeq(@, r + 1, Len(@)),
                                 !.total_blob_count =
                                     @ - SeqSum([i \in 1..r |->
                                                   writer.previous_files[i].blob_count])]
                 /\ jfiles' = SelectSeq(jfiles, LAMBDA f : f.id \notin gone)
                 /\ IF r < ToDispose
                    THEN LET f == writer.previous_files[r + 1] IN
                         /\ f.path \in FileIds /\ f.path \in FileIds'
                         /\ Head(writer'.previous_files) = f
                         /\ \E x \in remove_failed' : x.path = f.path
                    ELSE remove_failed' = remove_failed]_vars
    /\ [](failed = {} /\ proc # "dead")

\* The removal of a journal file has failed; the file is on disk and
\* registered with its blob count, and a Set journaled after the failure
\* has been acknowledged.
C39_Witness ==
    /\ proc = "up" /\ jpc = "serve"
    /\ \E x \in remove_failed :
          /\ x.path \in FileIds
          /\ \E i \in 1..Len(writer.previous_files) :
                /\ writer.previous_files[i].path = x.path
                /\ writer.previous_files[i].blob_count = Len(FileOf(x.path).blobs)
          /\ \E a \in acked : a.epoch > x.persisted

\* C40: a query that was held is answered at the machine epoch equal to its
\* min_epoch, from the state after the mutations of epochs 1..min_epoch
\* and no other; handling a Query changes neither the machine state nor
\* the epoch.
C40_DeferredAtMinEpoch ==
    /\ [](\A a \in answers \cup undelivered : a.deferred => a.epoch = a.min_epoch)
    /\ [][ProposalStep =>
             \A q \in query_queue \ query_queue' :
                /\ q.min_epoch = epoch'
                /\ \A e \in 1..q.min_epoch : Cardinality(KnownAt(e)) = 1
                /\ machine' = StateAt(q.min_epoch)
                /\ Answer(q, StateAt(q.min_epoch), q.min_epoch, TRUE)
                      \in answers' \cup undelivered']_vars
    /\ [][QueryStep => machine' = machine /\ epoch' = epoch]_vars

====
